---- MODULE Spec2Model ----
(***************************************************************************)
(* Model of the GA4 MCP server: the OAuth2 credential lifecycle            *)
(* (Settings, CredentialsManager and OAuthManager, with the two files they *)
(* share, .ga4_credentials.json and .oauth_flow_state.json), the report    *)
(* path (DataValidator, ReportBuilder, DataFormatter, GA4Client) and the   *)
(* tools of GA4MCPServer.                                                  *)
(*                                                                         *)
(* Python values are tagged records ([t |-> "None"], [t |-> "str", ...]),  *)
(* JSON values are tagged differently ([t |-> "null"], ...), so that       *)
(* json.dump and json.load are real conversions.  An exception message is  *)
(* the sequence of the fragments its f-string concatenates.                *)
(***************************************************************************)
EXTENDS Integers, Sequences, FiniteSets, TLC

VARIABLES
    settings,      \* Settings: the cached environment variables
    credentials,   \* CredentialsManager._credentials
    credFile,      \* .ga4_credentials.json
    flowFile,      \* .oauth_flow_state.json
    now,           \* the clock Credentials.expired reads
    ga4_client,    \* GA4Client: _credentials, _analytics_client, _admin_client
    starts,        \* start_oauth_flow calls in progress, one per concurrent caller
    completing,    \* the complete_oauth_flow call in progress, when it is taken step by step
    lastCall       \* the last call made: operation, argument, exception, return value, external calls

vars == <<settings, credentials, credFile, flowFile, now, ga4_client, starts, completing, lastCall>>

\* ------------------------------------------------------------------ bounds
MaxTime == 2
TokenLifetime == 1

\* ----------------------------------------------------------- Python values
None == [t |-> "None"]
Str(s) == [t |-> "str", v |-> s]
PyList(l) == [t |-> "list", v |-> l]
Dict(f) == [t |-> "dict", v |-> f]
DateTime(n) == [t |-> "datetime", v |-> n]
Tuple(l) == [t |-> "tuple", v |-> l]
PyInt(n) == [t |-> "int", v |-> n]
PyBool(b) == [t |-> "bool", v |-> b]

\* bool(v) for the values the code tests: None and "" are falsy
Truthy(v) == /\ v # None
             /\ v # Str("")
             /\ v # PyList(<<>>)

\* dict.get(k): None for a missing key
DictGet(d, k) == IF k \in DOMAIN d.v THEN d.v[k] ELSE None

\* ------------------------------------------------------------------- JSON
RECURSIVE json_dump(_)
json_dump(v) ==
    CASE v.t = "None" -> [t |-> "null"]
      [] v.t = "str"  -> [t |-> "string", v |-> v.v]
      [] v.t = "fstr" -> [t |-> "string", parts |-> v.parts]
      [] v.t = "int"  -> [t |-> "number", v |-> v.v]
      [] v.t = "bool" -> [t |-> IF v.v THEN "true" ELSE "false"]
      [] v.t = "list" -> [t |-> "array", v |-> [i \in DOMAIN v.v |-> json_dump(v.v[i])]]
      [] v.t = "dict" -> [t |-> "object", v |-> [k \in DOMAIN v.v |-> json_dump(v.v[k])]]

RECURSIVE json_load(_)
json_load(j) ==
    CASE j.t = "null"   -> None
      [] j.t = "string" -> IF "parts" \in DOMAIN j THEN [t |-> "fstr", parts |-> j.parts] ELSE Str(j.v)
      [] j.t = "number" -> [t |-> "int", v |-> j.v]
      [] j.t = "true"   -> [t |-> "bool", v |-> TRUE]
      [] j.t = "false"  -> [t |-> "bool", v |-> FALSE]
      [] j.t = "array"  -> PyList([i \in DOMAIN j.v |-> json_load(j.v[i])])
      [] j.t = "object" -> Dict([k \in DOMAIN j.v |-> json_load(j.v[k])])

\* ------------------------------------------------------------------ files
\* A file is absent, holds text that is not JSON, or holds a JSON document.
Absent == [kind |-> "absent"]
Text == [kind |-> "text"]
Json(j) == [kind |-> "json", doc |-> j]

exists(file) == file # Absent

\* open(path, 'w') + json.dump: the write succeeds, fails before the file is
\* touched (open fails), or fails after it was truncated (dump fails).
WriteOutcomes == {"ok", "fail_untouched", "fail_partial"}
\* mutant of write_file: the file is opened for exclusive creation, an
\* existing file is kept as it is
write_file_keep_existing(file, v, io) ==
    IF file # [kind |-> "absent"] THEN file
    ELSE CASE io = "ok"             -> Json(json_dump(v))
           [] io = "fail_untouched" -> file
           [] io = "fail_partial"   -> Text

write_file(file, v, io) ==
    CASE io = "ok"             -> Json(json_dump(v))
      [] io = "fail_untouched" -> file
      [] io = "fail_partial"   -> Text

\* os.remove: succeeds or raises OSError and leaves the file
RemoveOutcomes == {"ok", "fail"}
\* mutant of remove_file: os.remove returns without removing anything
remove_file_keeps_file(file, io) == file

remove_file(file, io) == IF io = "ok" THEN Absent ELSE file

\* ------------------------------------------------------------- exceptions
Exc(type, msg) == [type |-> type, msg |-> msg]
NoExc == [type |-> "none", msg |-> <<>>]

\* the classes an exception of the given type is an instance of
Bases(type) ==
    CASE type = "CredentialsError"    -> {"CredentialsError", "AuthenticationError", "GA4ServerError", "Exception"}
      [] type = "AuthenticationError" -> {"AuthenticationError", "GA4ServerError", "Exception"}
      [] type = "ConfigurationError"  -> {"ConfigurationError", "GA4ServerError", "Exception"}
      [] type = "GA4APIError"         -> {"GA4APIError", "GA4ServerError", "Exception"}
      [] type = "ValidationError"     -> {"ValidationError", "GA4ServerError", "Exception"}
      [] type = "none"                -> {}
      [] OTHER                        -> {type, "Exception"}

IsInstance(e, cls) == cls \in Bases(e.type)
Mentions(e, fragment) == \E i \in DOMAIN e.msg : e.msg[i] = fragment

\* -------------------------------------------------------------- constants
GA4_SCOPES == PyList(<<Str("https://www.googleapis.com/auth/analytics.readonly"),
                       Str("https://www.googleapis.com/auth/analytics.manage.users.readonly")>>)
OAUTH_REDIRECT_URI == Str("http://localhost:8080")
GOOGLE_AUTH_URI == Str("https://accounts.google.com/o/oauth2/auth")
GOOGLE_TOKEN_URI == Str("https://oauth2.googleapis.com/token")

\* --------------------------------------------------------------- Settings
\* os.getenv gives None or a string (possibly empty)
ClientIdValues == {None, Str("cid")}
ClientSecretValues == {None, Str("sec")}

Settings_init(id, secret) == [_client_id |-> id, _client_secret |-> secret]

client_id(s) ==
    IF ~Truthy(s._client_id)
    THEN [exc |-> Exc("ConfigurationError",
                      <<"GA4_CLIENT_ID", " environment variable is required. ",
                        "Please set it in your .env file or environment.">>),
          ret |-> None]
    ELSE [exc |-> NoExc, ret |-> s._client_id]

client_secret(s) ==
    IF ~Truthy(s._client_secret)
    THEN [exc |-> Exc("ConfigurationError",
                      <<"GA4_CLIENT_SECRET", " environment variable is required. ",
                        "Please set it in your .env file or environment.">>),
          ret |-> None]
    ELSE [exc |-> NoExc, ret |-> s._client_secret]

has_required_credentials(s) == Truthy(s._client_id) /\ Truthy(s._client_secret)

\* mutant of get_oauth_client_config: the secret is read before the id
get_oauth_client_config_secret_first(s) ==
    IF client_secret(s).exc # NoExc THEN client_secret(s)
    ELSE IF client_id(s).exc # NoExc THEN client_id(s)
    ELSE [exc |-> NoExc,
          ret |-> Dict([w \in {"web"} |->
                    Dict([k \in {"client_id", "client_secret", "auth_uri", "token_uri", "redirect_uris"} |->
                        CASE k = "client_id"     -> client_id(s).ret
                          [] k = "client_secret" -> client_secret(s).ret
                          [] k = "auth_uri"      -> GOOGLE_AUTH_URI
                          [] k = "token_uri"     -> GOOGLE_TOKEN_URI
                          [] k = "redirect_uris" -> PyList(<<OAUTH_REDIRECT_URI>>)])])]

\* the dict literal evaluates self.client_id first, then self.client_secret
get_oauth_client_config(s) ==
    IF client_id(s).exc # NoExc THEN client_id(s)
    ELSE IF client_secret(s).exc # NoExc THEN client_secret(s)
    ELSE [exc |-> NoExc,
          ret |-> Dict([w \in {"web"} |->
                    Dict([k \in {"client_id", "client_secret", "auth_uri", "token_uri", "redirect_uris"} |->
                        CASE k = "client_id"     -> client_id(s).ret
                          [] k = "client_secret" -> client_secret(s).ret
                          [] k = "auth_uri"      -> GOOGLE_AUTH_URI
                          [] k = "token_uri"     -> GOOGLE_TOKEN_URI
                          [] k = "redirect_uris" -> PyList(<<OAUTH_REDIRECT_URI>>)])])]

\* ------------------------------------------------- google Credentials object
CredentialKeys == {"token", "refresh_token", "token_uri", "client_id", "client_secret", "scopes"}

Credentials(token, refresh_token, token_uri, cid, secret, scopes, expiry) ==
    [t |-> "Credentials", token |-> token, refresh_token |-> refresh_token,
     token_uri |-> token_uri, client_id |-> cid, client_secret |-> secret,
     scopes |-> scopes, expiry |-> expiry]

\* Credentials.expired: a credential without expiry never expires
expired(c, t) == c.expiry # None /\ t >= c.expiry.v

\* ------------------------------------------------------ CredentialsManager
\* Every method is an operator from the manager's state (the in-memory
\* _credentials and the credentials file) to the state after the call, the
\* exception raised (NoExc if none), the value returned, the external calls
\* made in order, and the messages logged at warning or error level.

\* mutant of save_credentials: the refresh token is not written
save_credentials_no_refresh(cur, cfile, c, io) ==
    LET creds_data == Dict([k \in CredentialKeys |-> IF k = "refresh_token" THEN None ELSE c[k]])
    IN IF io = "ok"
       THEN [_credentials |-> c, credFile |-> write_file(cfile, creds_data, io),
             exc |-> NoExc, ret |-> None,
             calls |-> <<"write_credentials_file">>, log |-> <<>>]
       ELSE [_credentials |-> cur, credFile |-> write_file(cfile, creds_data, io),
             exc |-> Exc("CredentialsError", <<"Failed to save credentials: ", "OSError">>),
             ret |-> None,
             calls |-> <<"write_credentials_file">>, log |-> <<"Failed to save credentials: ">>]

save_credentials(cur, cfile, c, io) ==
    LET creds_data == Dict([k \in CredentialKeys |-> c[k]])
    IN IF io = "ok"
       THEN [_credentials |-> c, credFile |-> write_file(cfile, creds_data, io),
             exc |-> NoExc, ret |-> None,
             calls |-> <<"write_credentials_file">>, log |-> <<>>]
       ELSE [_credentials |-> cur, credFile |-> write_file(cfile, creds_data, io),
             exc |-> Exc("CredentialsError", <<"Failed to save credentials: ", "OSError">>),
             ret |-> None,
             calls |-> <<"write_credentials_file">>, log |-> <<"Failed to save credentials: ">>]

\* mutant of load_credentials: JSONDecodeError falls through to the generic handler
load_credentials_generic_handler(cur, cfile) ==
    IF ~exists(cfile)
    THEN [_credentials |-> cur, credFile |-> cfile,
          exc |-> Exc("CredentialsError", <<"No saved credentials found. Please authenticate first.">>),
          ret |-> None, calls |-> <<>>, log |-> <<>>]
    ELSE IF cfile.kind = "text" \/ json_load(cfile.doc).t # "dict"
    THEN [_credentials |-> cur, credFile |-> cfile,
          exc |-> Exc("CredentialsError", <<"Failed to load credentials: ", "Exception">>),
          ret |-> None,
          calls |-> <<"read_credentials_file">>, log |-> <<"Failed to load credentials: ">>]
    ELSE LET creds_data == json_load(cfile.doc)
             c == Credentials(DictGet(creds_data, "token"),
                              DictGet(creds_data, "refresh_token"),
                              DictGet(creds_data, "token_uri"),
                              DictGet(creds_data, "client_id"),
                              DictGet(creds_data, "client_secret"),
                              DictGet(creds_data, "scopes"),
                              None)
         IN [_credentials |-> c, credFile |-> cfile,
             exc |-> NoExc, ret |-> c,
             calls |-> <<"read_credentials_file">>, log |-> <<>>]

load_credentials(cur, cfile) ==
    IF ~exists(cfile)
    THEN [_credentials |-> cur, credFile |-> cfile,
          exc |-> Exc("CredentialsError", <<"No saved credentials found. Please authenticate first.">>),
          ret |-> None, calls |-> <<>>, log |-> <<>>]
    ELSE IF cfile.kind = "text"
    THEN [_credentials |-> cur, credFile |-> cfile,
          exc |-> Exc("CredentialsError", <<"Invalid credentials file format: ", "JSONDecodeError">>),
          ret |-> None,
          calls |-> <<"read_credentials_file">>, log |-> <<"Invalid credentials file format: ">>]
    ELSE LET creds_data == json_load(cfile.doc)
         IN IF creds_data.t # "dict"
            THEN [_credentials |-> cur, credFile |-> cfile,
                  exc |-> Exc("CredentialsError", <<"Failed to load credentials: ", "AttributeError">>),
                  ret |-> None,
                  calls |-> <<"read_credentials_file">>, log |-> <<"Failed to load credentials: ">>]
            ELSE LET c == Credentials(DictGet(creds_data, "token"),
                                      DictGet(creds_data, "refresh_token"),
                                      DictGet(creds_data, "token_uri"),
                                      DictGet(creds_data, "client_id"),
                                      DictGet(creds_data, "client_secret"),
                                      DictGet(creds_data, "scopes"),
                                      None)
                 IN [_credentials |-> c, credFile |-> cfile,
                     exc |-> NoExc, ret |-> c,
                     calls |-> <<"read_credentials_file">>, log |-> <<>>]

\* mutant of is_expired: no credential counts as not expired
is_expired_only_if_present(cur, t) ==
    IF cur = None THEN FALSE ELSE expired(cur, t)

is_expired(cur, t) ==
    IF cur = None THEN TRUE ELSE expired(cur, t)

is_authenticated(cur, t) ==
    cur # None /\ ~is_expired(cur, t)

\* mutant of clear_credentials: the in-memory credential is dropped only
\* after the file was removed
clear_credentials_after_remove(cur, cfile, io) ==
    IF exists(cfile)
    THEN IF io = "ok"
         THEN [_credentials |-> None, credFile |-> remove_file(cfile, io),
               exc |-> NoExc, ret |-> None,
               calls |-> <<"remove_credentials_file">>, log |-> <<>>]
         ELSE [_credentials |-> cur, credFile |-> remove_file(cfile, io),
               exc |-> Exc("CredentialsError", <<"Failed to clear credentials: ", "OSError">>),
               ret |-> None,
               calls |-> <<"remove_credentials_file">>,
               log |-> <<"Failed to remove credentials file: ">>]
    ELSE [_credentials |-> None, credFile |-> cfile,
          exc |-> NoExc, ret |-> None, calls |-> <<>>, log |-> <<>>]

\* mutant of clear_credentials: a failed removal is swallowed
clear_credentials_swallow(cur, cfile, io) ==
    IF exists(cfile)
    THEN [_credentials |-> None, credFile |-> remove_file(cfile, io),
          exc |-> NoExc, ret |-> None,
          calls |-> <<"remove_credentials_file">>, log |-> <<>>]
    ELSE [_credentials |-> None, credFile |-> cfile,
          exc |-> NoExc, ret |-> None, calls |-> <<>>, log |-> <<>>]

clear_credentials(cur, cfile, io) ==
    IF exists(cfile)
    THEN IF io = "ok"
         THEN [_credentials |-> None, credFile |-> remove_file(cfile, io),
               exc |-> NoExc, ret |-> None,
               calls |-> <<"remove_credentials_file">>, log |-> <<>>]
         ELSE [_credentials |-> None, credFile |-> remove_file(cfile, io),
               exc |-> Exc("CredentialsError", <<"Failed to clear credentials: ", "OSError">>),
               ret |-> None,
               calls |-> <<"remove_credentials_file">>,
               log |-> <<"Failed to remove credentials file: ">>]
    ELSE [_credentials |-> None, credFile |-> cfile,
          exc |-> NoExc, ret |-> None, calls |-> <<>>, log |-> <<>>]

\* CredentialsManager.get_credentials_info: two different dicts, one for no
\* credential and one for a credential; nothing is stored or written
get_credentials_info(cur, t) ==
    IF cur = None
    THEN [_credentials |-> cur, exc |-> NoExc, calls |-> <<>>, log |-> <<>>,
          ret |-> Dict([k \in {"authenticated", "expired", "scopes", "client_id"} |->
                    CASE k = "authenticated" -> PyBool(FALSE)
                      [] k = "expired"       -> PyBool(TRUE)
                      [] k = "scopes"        -> PyList(<<>>)
                      [] k = "client_id"     -> None])]
    ELSE [_credentials |-> cur, exc |-> NoExc, calls |-> <<>>, log |-> <<>>,
          ret |-> Dict([k \in {"authenticated", "expired", "scopes", "client_id",
                               "has_refresh_token"} |->
                    CASE k = "authenticated"     -> PyBool(TRUE)
                      [] k = "expired"           -> PyBool(expired(cur, t))
                      [] k = "scopes"            -> IF Truthy(cur.scopes) THEN cur.scopes
                                                    ELSE PyList(<<>>)
                      [] k = "client_id"         -> cur.client_id
                      [] k = "has_refresh_token" -> PyBool(Truthy(cur.refresh_token))])]

\* ------------------------------------------------------------ vendor flow
\* google_auth_oauthlib.flow.Flow as the code uses it.
StateTokens == {"st1", "st2"}
\* the authorization code is opaque to the program: it is only handed to fetch_token
Codes == {"code1"}

\* fetch_token: the token endpoint rejects the exchange or grants tokens
ExchangeOutcomes ==
    {[ok |-> FALSE, token |-> None, refresh_token |-> None],
     [ok |-> TRUE, token |-> Str("tokA"), refresh_token |-> Str("ref")],
     [ok |-> TRUE, token |-> Str("tokB"), refresh_token |-> None]}

\* Flow.from_client_config: ValueError unless the config is a dict with a "web" dict
from_client_config_ok(client_config) ==
    /\ client_config.t = "dict"
    /\ "web" \in DOMAIN client_config.v
    /\ client_config.v["web"].t = "dict"
    /\ {"client_id", "client_secret", "auth_uri", "token_uri"} \subseteq DOMAIN client_config.v["web"].v

\* Flow.from_client_config(client_config, scopes=GA4_SCOPES, state=state),
\* followed by flow.redirect_uri = OAUTH_REDIRECT_URI: the flow object
from_client_config(client_config, state) ==
    [client_config |-> client_config, scopes |-> GA4_SCOPES,
     redirect_uri |-> OAUTH_REDIRECT_URI, state |-> state]

\* flow.fetch_token(code=authorization_code): the code is posted to the token
\* endpoint with the client id, the client secret and the redirect URI. The
\* state held by the flow is not part of the request and the caller passes no
\* authorization response to compare it with, so the outcome x is decided by
\* the authorization server from the code alone.
fetch_token(flow, code, x) == x.ok

\* flow.authorization_url(prompt='consent'): the URL and the state it carries
authorization_url(client_config, state) ==
    [t |-> "url",
     endpoint |-> client_config.v["web"].v["auth_uri"],
     client_id |-> client_config.v["web"].v["client_id"],
     redirect_uri |-> OAUTH_REDIRECT_URI,
     scope |-> GA4_SCOPES,
     state |-> Str(state),
     prompt |-> Str("consent")]

\* flow.credentials after a successful fetch_token
flow_credentials(client_config, x, t) ==
    Credentials(x.token, x.refresh_token,
                client_config.v["web"].v["token_uri"],
                client_config.v["web"].v["client_id"],
                client_config.v["web"].v["client_secret"],
                GA4_SCOPES,
                DateTime(t + TokenLifetime))

\* ----------------------------------------------------------- OAuthManager
\* Operators from (in-memory credential, credentials file, flow state file)
\* to the state after the call, the exception, the return value, the
\* external calls made in order, and the warnings and errors logged.

\* mutant of start_oauth_flow: the flow state file is written outside the
\* try block, so a failed write escapes as the raw OSError
start_oauth_flow_write_outside_try(s, cur, cfile, ffile, state, helperOk, io) ==
    LET cfg == get_oauth_client_config(s)
        failed(e, file, calls) ==
            [_credentials |-> cur, credFile |-> cfile, flowFile |-> file,
             exc |-> Exc("AuthenticationError", <<"Failed to start OAuth flow: ">> \o e),
             ret |-> None, calls |-> calls, log |-> <<"Failed to start OAuth flow: ">>]
    IN IF cfg.exc # NoExc THEN failed(cfg.exc.msg, ffile, <<>>)
       ELSE IF ~helperOk \/ ~from_client_config_ok(cfg.ret) THEN failed(<<"ValueError">>, ffile, <<>>)
       ELSE LET flow_state == Dict([k \in {"client_config", "state"} |->
                                     IF k = "client_config" THEN cfg.ret ELSE Str(state)])
            IN [_credentials |-> cur, credFile |-> cfile,
                flowFile |-> write_file(ffile, flow_state, io),
                exc |-> IF io = "ok" THEN NoExc ELSE Exc("OSError", <<"OSError">>),
                ret |-> IF io = "ok" THEN authorization_url(cfg.ret, state) ELSE None,
                calls |-> <<"write_flow_state_file">>, log |-> <<>>]

\* mutant of start_oauth_flow: the flow state written to the file holds the
\* client configuration only, the state token is dropped
start_oauth_flow_state_not_stored(s, cur, cfile, ffile, state, helperOk, io) ==
    LET cfg == get_oauth_client_config(s)
        failed(e, file, calls) ==
            [_credentials |-> cur, credFile |-> cfile, flowFile |-> file,
             exc |-> Exc("AuthenticationError", <<"Failed to start OAuth flow: ">> \o e),
             ret |-> None, calls |-> calls, log |-> <<"Failed to start OAuth flow: ">>]
    IN IF cfg.exc # NoExc THEN failed(cfg.exc.msg, ffile, <<>>)
       ELSE IF ~helperOk \/ ~from_client_config_ok(cfg.ret) THEN failed(<<"ValueError">>, ffile, <<>>)
       ELSE LET flow_state == Dict([k \in {"client_config"} |-> cfg.ret])
            IN IF io = "ok"
               THEN [_credentials |-> cur, credFile |-> cfile,
                     flowFile |-> write_file(ffile, flow_state, io),
                     exc |-> NoExc, ret |-> authorization_url(cfg.ret, state),
                     calls |-> <<"write_flow_state_file">>, log |-> <<>>]
               ELSE failed(<<"OSError">>, write_file(ffile, flow_state, io),
                           <<"write_flow_state_file">>)

start_oauth_flow(s, cur, cfile, ffile, state, helperOk, io) ==
    LET cfg == get_oauth_client_config(s)
        failed(e, file, calls) ==
            [_credentials |-> cur, credFile |-> cfile, flowFile |-> file,
             exc |-> Exc("AuthenticationError", <<"Failed to start OAuth flow: ">> \o e),
             ret |-> None, calls |-> calls, log |-> <<"Failed to start OAuth flow: ">>]
    IN IF cfg.exc # NoExc THEN failed(cfg.exc.msg, ffile, <<>>)
       ELSE IF ~helperOk \/ ~from_client_config_ok(cfg.ret) THEN failed(<<"ValueError">>, ffile, <<>>)
       ELSE LET flow_state == Dict([k \in {"client_config", "state"} |->
                                     IF k = "client_config" THEN cfg.ret ELSE Str(state)])
            IN IF io = "ok"
               THEN [_credentials |-> cur, credFile |-> cfile,
                     flowFile |-> write_file(ffile, flow_state, io),
                     exc |-> NoExc, ret |-> authorization_url(cfg.ret, state),
                     calls |-> <<"write_flow_state_file">>, log |-> <<>>]
               ELSE failed(<<"OSError">>, write_file(ffile, flow_state, io),
                           <<"write_flow_state_file">>)

\* mutant of _cleanup_flow_state: the flow state file is never removed
_cleanup_flow_state_skipped(ffile, io) ==
    [flowFile |-> ffile, exc |-> NoExc, calls |-> <<>>, log |-> <<>>]

\* mutant of _cleanup_flow_state: the removal is not guarded, a failed
\* os.remove is raised to the caller
_cleanup_flow_state_raises(ffile, io) ==
    IF exists(ffile)
    THEN [flowFile |-> remove_file(ffile, io),
          exc |-> IF io = "ok" THEN NoExc ELSE Exc("OSError", <<"OSError">>),
          calls |-> <<"remove_flow_state_file">>, log |-> <<>>]
    ELSE [flowFile |-> ffile, exc |-> NoExc, calls |-> <<>>, log |-> <<>>]

\* os.path.exists + os.remove inside try/except: a failed removal is only
\* logged, nothing is raised
_cleanup_flow_state(ffile, io) ==
    IF exists(ffile)
    THEN [flowFile |-> remove_file(ffile, io),
          exc |-> NoExc,
          calls |-> <<"remove_flow_state_file">>,
          log |-> IF io = "ok" THEN <<>> ELSE <<"Failed to clean up flow state: ">>]
    ELSE [flowFile |-> ffile, exc |-> NoExc, calls |-> <<>>, log |-> <<>>]

\* mutant of no_flow_state: the file is opened without the existence check
\* and the error escapes unwrapped
no_flow_state_unwrapped(cur, cfile, ffile) ==
    [_credentials |-> cur, credFile |-> cfile, flowFile |-> ffile,
     exc |-> Exc("FileNotFoundError", <<"No such file or directory">>),
     ret |-> None, calls |-> <<>>, log |-> <<>>, flow |-> None]

\* the AuthenticationError raised when the flow state file does not exist,
\* caught by the generic handler and raised again with its prefix
no_flow_state(cur, cfile, ffile) ==
    [_credentials |-> cur, credFile |-> cfile, flowFile |-> ffile,
     exc |-> Exc("AuthenticationError",
                 <<"Failed to complete OAuth flow: ",
                   "No OAuth flow state found. Please start OAuth flow first.">>),
     ret |-> None, calls |-> <<>>, log |-> <<"Failed to complete OAuth flow: ">>, flow |-> None]

\* mutant of complete_failed: the handler removes the flow state file
complete_failed_cleans_up(cur, cfile, ffile, pre, e, calls, flow) ==
    [_credentials |-> cur, credFile |-> cfile, flowFile |-> Absent,
     exc |-> Exc("AuthenticationError", <<pre>> \o e),
     ret |-> None, calls |-> calls, log |-> <<pre>>, flow |-> flow]

\* the two except clauses of complete_oauth_flow for a failure before the
\* credential is saved: the error is logged and raised as
\* AuthenticationError(f"{pre}{e}"); nothing is undone or removed
complete_failed(cur, cfile, ffile, pre, e, calls, flow) ==
    [_credentials |-> cur, credFile |-> cfile, flowFile |-> ffile,
     exc |-> Exc("AuthenticationError", <<pre>> \o e),
     ret |-> None, calls |-> calls, log |-> <<pre>>, flow |-> flow]

complete_oauth_flow(cur, cfile, ffile, code, t, x, wio, rio) ==
    LET failed(pre, e, calls, flow) == complete_failed(cur, cfile, ffile, pre, e, calls, flow)
    IN IF ~exists(ffile)
       THEN no_flow_state(cur, cfile, ffile)
       ELSE IF ffile.kind = "text"
       THEN failed("Invalid flow state file: ", <<"JSONDecodeError">>, <<"read_flow_state_file">>, None)
       ELSE LET flow_state == json_load(ffile.doc)
            IN IF flow_state.t # "dict"
               THEN failed("Failed to complete OAuth flow: ", <<"TypeError">>,
                           <<"read_flow_state_file">>, None)
               ELSE IF ~({"client_config", "state"} \subseteq DOMAIN flow_state.v)
               THEN failed("Failed to complete OAuth flow: ", <<"KeyError">>,
                           <<"read_flow_state_file">>, None)
               ELSE IF ~from_client_config_ok(flow_state.v["client_config"])
               THEN failed("Failed to complete OAuth flow: ", <<"ValueError">>,
                           <<"read_flow_state_file">>, None)
               ELSE LET flow == from_client_config(flow_state.v["client_config"],
                                                   flow_state.v["state"])
                    IN IF ~fetch_token(flow, code, x)
                       THEN failed("Failed to complete OAuth flow: ", <<"OAuth2Error">>,
                                   <<"read_flow_state_file", "fetch_token">>, flow)
                       ELSE LET c == flow_credentials(flow.client_config, x, t)
                                saved == save_credentials(cur, cfile, c, wio)
                                cleaned == _cleanup_flow_state(ffile, rio)
                                done == <<"read_flow_state_file", "fetch_token">> \o saved.calls
                            IN IF saved.exc # NoExc
                               THEN [_credentials |-> saved._credentials,
                                     credFile |-> saved.credFile,
                                     flowFile |-> ffile,
                                     exc |-> Exc("AuthenticationError",
                                                 <<"Failed to complete OAuth flow: ">>
                                                 \o saved.exc.msg),
                                     ret |-> None,
                                     calls |-> done,
                                     log |-> saved.log \o <<"Failed to complete OAuth flow: ">>,
                                     flow |-> flow]
                               ELSE IF cleaned.exc # NoExc
                               THEN [_credentials |-> saved._credentials,
                                     credFile |-> saved.credFile,
                                     flowFile |-> cleaned.flowFile,
                                     exc |-> Exc("AuthenticationError",
                                                 <<"Failed to complete OAuth flow: ">>
                                                 \o cleaned.exc.msg),
                                     ret |-> None,
                                     calls |-> done \o cleaned.calls,
                                     log |-> cleaned.log \o <<"Failed to complete OAuth flow: ">>,
                                     flow |-> flow]
                               ELSE [_credentials |-> saved._credentials,
                                     credFile |-> saved.credFile,
                                     flowFile |-> cleaned.flowFile,
                                     exc |-> NoExc, ret |-> c,
                                     calls |-> done \o cleaned.calls,
                                     log |-> cleaned.log,
                                     flow |-> flow]

load_saved_credentials(cur, cfile, ffile) ==
    LET r == load_credentials(cur, cfile)
    IN IF r.exc # NoExc
       THEN [_credentials |-> r._credentials, credFile |-> r.credFile, flowFile |-> ffile,
             exc |-> Exc("AuthenticationError", <<"Failed to load saved credentials: ">> \o r.exc.msg),
             ret |-> None, calls |-> r.calls,
             log |-> r.log \o <<"Failed to load saved credentials: ">>]
       ELSE [_credentials |-> r._credentials, credFile |-> r.credFile, flowFile |-> ffile,
             exc |-> NoExc, ret |-> r.ret, calls |-> r.calls, log |-> r.log]

check_auth_status(cur, t) ==
    IF ~is_authenticated(cur, t)
    THEN Tuple(<<FALSE, "Not authenticated. Use start_oauth_flow or load_saved_credentials first.">>)
    ELSE IF is_expired(cur, t)
    THEN Tuple(<<FALSE, "Credentials expired. Please re-authenticate using start_oauth_flow.">>)
    ELSE Tuple(<<TRUE, "Authenticated and ready to access Google Analytics 4 data.">>)

reset_authentication(cur, cfile, ffile, cio, fio) ==
    LET cleared == clear_credentials(cur, cfile, cio)
        cleaned == _cleanup_flow_state(ffile, fio)
    IN IF cleared.exc # NoExc
       THEN [_credentials |-> cleared._credentials, credFile |-> cleared.credFile,
             flowFile |-> ffile,
             exc |-> Exc("AuthenticationError", <<"Failed to reset authentication: ">> \o cleared.exc.msg),
             ret |-> None, calls |-> cleared.calls,
             log |-> cleared.log \o <<"Failed to reset authentication: ">>]
       ELSE IF cleaned.exc # NoExc
       THEN [_credentials |-> cleared._credentials, credFile |-> cleared.credFile,
             flowFile |-> cleaned.flowFile,
             exc |-> Exc("AuthenticationError", <<"Failed to reset authentication: ">> \o cleaned.exc.msg),
             ret |-> None, calls |-> cleared.calls \o cleaned.calls,
             log |-> cleaned.log \o <<"Failed to reset authentication: ">>]
       ELSE [_credentials |-> cleared._credentials, credFile |-> cleared.credFile,
             flowFile |-> cleaned.flowFile,
             exc |-> NoExc, ret |-> None,
             calls |-> cleared.calls \o cleaned.calls, log |-> cleaned.log]

\* ---------------------------------------------------------------- strings
\* A str whose characters the code inspects is the sequence of its
\* characters, each a one-character string.  Two characters outside ASCII are
\* named by their code points: ARABIC-INDIC DIGIT THREE, a decimal digit
\* (matched by \d, accepted by isdigit), and SUPERSCRIPT TWO, a digit that is
\* not decimal (accepted by isdigit only).
AsciiDigits == {"0", "1", "2", "3", "4", "5", "6", "7", "8", "9"}
ArabicIndicThree == "U+0663"
SuperscriptTwo == "U+00B2"
DecimalChars == AsciiDigits \cup {ArabicIndicThree}
DigitChars == DecimalChars \cup {SuperscriptTwo}
WhitespaceChars == {" ", "\t", "\n"}

\* str.isdigit(): non-empty and every character a digit
isdigit(s) == s # <<>> /\ \A i \in DOMAIN s : s[i] \in DigitChars

\* str.startswith(prefix)
startswith(s, prefix) ==
    Len(s) >= Len(prefix) /\ SubSeq(s, 1, Len(prefix)) = prefix

\* str.replace(old, new): every non-overlapping occurrence, left to right
RECURSIVE replace(_, _, _)
replace(s, old, new) ==
    IF s = <<>> THEN <<>>
    ELSE IF startswith(s, old)
    THEN new \o replace(SubSeq(s, Len(old) + 1, Len(s)), old, new)
    ELSE <<Head(s)>> \o replace(Tail(s), old, new)

\* str.split(sep) for a one-character separator: always at least one piece
RECURSIVE split(_, _)
split(s, sep) ==
    IF \A i \in DOMAIN s : s[i] # sep THEN <<s>>
    ELSE LET k == CHOOSE i \in DOMAIN s : s[i] = sep /\ \A j \in 1..(i - 1) : s[j] # sep
         IN <<SubSeq(s, 1, k - 1)>> \o split(SubSeq(s, k + 1, Len(s)), sep)

\* str.strip(): leading and trailing whitespace removed
RECURSIVE strip(_)
strip(s) ==
    IF s = <<>> THEN s
    ELSE IF Head(s) \in WhitespaceChars THEN strip(Tail(s))
    ELSE IF s[Len(s)] \in WhitespaceChars THEN strip(SubSeq(s, 1, Len(s) - 1))
    ELSE s

\* int() of a sequence of decimal characters
DigitValue(c) ==
    CASE c = "0" -> 0 [] c = "1" -> 1 [] c = "2" -> 2 [] c = "3" -> 3 [] c = "4" -> 4
      [] c = "5" -> 5 [] c = "6" -> 6 [] c = "7" -> 7 [] c = "8" -> 8 [] c = "9" -> 9
      [] c = ArabicIndicThree -> 3

RECURSIVE int(_)
int(s) == IF s = <<>> THEN 0 ELSE 10 * int(SubSeq(s, 1, Len(s) - 1)) + DigitValue(s[Len(s)])

\* a pattern anchored with ^...$ under re.match: $ also matches just before
\* a newline that ends the string
MatchToEnd(P(_), s) ==
    \/ P(s)
    \/ Len(s) >= 1 /\ s[Len(s)] = "\n" /\ P(SubSeq(s, 1, Len(s) - 1))

\* ------------------------------------------------------------- validation
PropertiesPrefix == <<"p", "r", "o", "p", "e", "r", "t", "i", "e", "s", "/">>

\* mutant of validate_property_id: the prefix is not removed before the
\* digit test
validate_property_id_prefix_kept(property_id) ==
    IF property_id = <<>>
    THEN [exc |-> Exc("ValidationError", <<"Property ID cannot be empty">>), ret |-> None]
    ELSE IF ~isdigit(property_id)
    THEN [exc |-> Exc("ValidationError", <<"Invalid property ID: ",
                      ". Expected numeric ID or 'properties/123456789' format">>),
          ret |-> None]
    ELSE [exc |-> NoExc, ret |-> PropertiesPrefix \o property_id]

\* DataValidator.validate_property_id
validate_property_id(property_id) ==
    IF property_id = <<>>
    THEN [exc |-> Exc("ValidationError", <<"Property ID cannot be empty">>), ret |-> None]
    ELSE LET clean_id == replace(property_id, PropertiesPrefix, <<>>)
         IN IF ~isdigit(clean_id)
            THEN [exc |-> Exc("ValidationError", <<"Invalid property ID: ",
                              ". Expected numeric ID or 'properties/123456789' format">>),
                  ret |-> None]
            ELSE [exc |-> NoExc,
                  ret |-> IF ~startswith(property_id, PropertiesPrefix)
                          THEN PropertiesPrefix \o clean_id
                          ELSE property_id]

\* relative_pattern: ^\d+(daysAgo|weeksAgo|monthsAgo|yearsAgo)$|^(today|yesterday)$
RelativeUnits ==
    {<<"d", "a", "y", "s", "A", "g", "o">>,
     <<"w", "e", "e", "k", "s", "A", "g", "o">>,
     <<"m", "o", "n", "t", "h", "s", "A", "g", "o">>,
     <<"y", "e", "a", "r", "s", "A", "g", "o">>}
RelativeWords == {<<"t", "o", "d", "a", "y">>, <<"y", "e", "s", "t", "e", "r", "d", "a", "y">>}

relative_body(s) ==
    \/ s \in RelativeWords
    \/ \E k \in 1..(Len(s) - 1) :
          /\ \A i \in 1..k : s[i] \in DecimalChars
          /\ SubSeq(s, k + 1, Len(s)) \in RelativeUnits
relative_pattern(s) == MatchToEnd(relative_body, s)

\* absolute_pattern: ^\d{4}-\d{2}-\d{2}$
absolute_body(s) ==
    /\ Len(s) = 10
    /\ \A i \in {1, 2, 3, 4, 6, 7, 9, 10} : s[i] \in DecimalChars
    /\ s[5] = "-"
    /\ s[8] = "-"
absolute_pattern(s) == MatchToEnd(absolute_body, s)

is_leap(y) == (y % 4 = 0 /\ y % 100 # 0) \/ y % 400 = 0
days_in_month(y, m) ==
    IF m = 2 THEN (IF is_leap(y) THEN 29 ELSE 28)
    ELSE IF m \in {4, 6, 9, 11} THEN 30 ELSE 31

\* datetime.strptime(date_str, '%Y-%m-%d') on a string that matched
\* absolute_pattern: the month and day fields are ASCII as the format's own
\* pattern spells them, the year is at least 1, the day exists in the month,
\* and nothing (not even a final newline) follows the day
strptime_ok(s) ==
    /\ Len(s) = 10
    /\ LET y == SubSeq(s, 1, 4)
           m == SubSeq(s, 6, 7)
           d == SubSeq(s, 9, 10)
       IN /\ int(y) >= 1
          /\ \/ m[1] = "1" /\ m[2] \in {"0", "1", "2"}
             \/ m[1] = "0" /\ m[2] \in AsciiDigits \ {"0"}
          /\ \/ d[1] = "3" /\ d[2] \in {"0", "1"}
             \/ d[1] \in {"1", "2"} /\ d[2] \in DecimalChars
             \/ d[1] = "0" /\ d[2] \in AsciiDigits \ {"0"}
          /\ int(d) <= days_in_month(int(y), int(m))

\* date_type.lower()
lower(date_type) == IF date_type = "Start date" THEN "start date" ELSE "end date"

\* validate_single_date(date_str, date_type), the closure of validate_date_range
validate_single_date(date_str, date_type) ==
    IF date_str = <<>>
    THEN [exc |-> Exc("ValidationError", <<date_type, " cannot be empty">>), ret |-> None]
    ELSE IF relative_pattern(date_str)
    THEN [exc |-> NoExc, ret |-> date_str]
    ELSE IF absolute_pattern(date_str)
    THEN IF strptime_ok(date_str)
         THEN [exc |-> NoExc, ret |-> date_str]
         ELSE [exc |-> Exc("ValidationError", <<"Invalid ", lower(date_type), ": ">>), ret |-> None]
    ELSE [exc |-> Exc("ValidationError", <<"Invalid ", lower(date_type), " format: ",
                       ". Use YYYY-MM-DD or relative format like '7daysAgo', 'today'">>),
          ret |-> None]

\* DataValidator.validate_date_range
validate_date_range(start_date, end_date) ==
    LET validated_start == validate_single_date(start_date, "Start date")
        validated_end == validate_single_date(end_date, "End date")
    IN IF validated_start.exc # NoExc THEN validated_start
       ELSE IF validated_end.exc # NoExc THEN validated_end
       ELSE [exc |-> NoExc, ret |-> <<validated_start.ret, validated_end.ret>>]

\* the names of a comma-separated list, each stripped
name_list(names) ==
    LET pieces == split(names, ",")
    IN [i \in DOMAIN pieces |-> strip(pieces[i])]

\* DataValidator.validate_metrics (a name outside VALID_METRICS is only
\* logged, "proceeding anyway")
validate_metrics(metrics) ==
    IF metrics = <<>>
    THEN [exc |-> Exc("ValidationError", <<"Metrics cannot be empty">>), ret |-> None]
    ELSE LET metric_list == name_list(metrics)
         IN IF \E i \in DOMAIN metric_list : metric_list[i] = <<>>
            THEN [exc |-> Exc("ValidationError", <<"Empty metric name found">>), ret |-> None]
            ELSE [exc |-> NoExc, ret |-> metric_list]

\* DataValidator.validate_dimensions (a name outside VALID_DIMENSIONS is only
\* logged, "proceeding anyway")
validate_dimensions(dimensions) ==
    IF dimensions = <<>>
    THEN [exc |-> Exc("ValidationError", <<"Dimensions cannot be empty">>), ret |-> None]
    ELSE LET dimension_list == name_list(dimensions)
         IN IF \E i \in DOMAIN dimension_list : dimension_list[i] = <<>>
            THEN [exc |-> Exc("ValidationError", <<"Empty dimension name found">>), ret |-> None]
            ELSE [exc |-> NoExc, ret |-> dimension_list]

\* the default of validate_limit's max_limit parameter
max_limit == 100000

\* DataValidator.validate_limit: bool is a subclass of int
validate_limit(limit) ==
    IF limit.t \notin {"int", "bool"}
    THEN [exc |-> Exc("ValidationError", <<"Limit must be an integer, got ">>), ret |-> None]
    ELSE LET n == IF limit.t = "bool" THEN (IF limit.v THEN 1 ELSE 0) ELSE limit.v
         IN IF n < 1
            THEN [exc |-> Exc("ValidationError", <<"Limit must be at least 1">>), ret |-> None]
            ELSE IF n > max_limit
            THEN [exc |-> Exc("ValidationError", <<"Limit cannot exceed ">>), ret |-> None]
            ELSE [exc |-> NoExc, ret |-> limit]

\* ---------------------------------------------------------- ReportBuilder
\* "properties/" is prepended unless the id already starts with it
property_field(property_id) ==
    IF ~startswith(property_id, PropertiesPrefix)
    THEN PropertiesPrefix \o property_id
    ELSE property_id

build_standard_report_request(property_id, start_date, end_date, metrics, dimensions, limit) ==
    [t |-> "RunReportRequest",
     property |-> property_field(property_id),
     dimensions |-> name_list(dimensions),
     metrics |-> name_list(metrics),
     date_ranges |-> <<[start_date |-> start_date, end_date |-> end_date]>>,
     limit |-> limit,
     order_bys |-> <<>>]

build_realtime_report_request(property_id, metrics, dimensions, limit) ==
    [t |-> "RunRealtimeReportRequest",
     property |-> property_field(property_id),
     dimensions |-> name_list(dimensions),
     metrics |-> name_list(metrics),
     date_ranges |-> <<>>,
     limit |-> limit,
     order_bys |-> <<>>]

AudienceMetrics ==
    <<<<"u", "s", "e", "r", "s">>,
      <<"n", "e", "w", "U", "s", "e", "r", "s">>,
      <<"s", "e", "s", "s", "i", "o", "n", "s">>,
      <<"e", "n", "g", "a", "g", "e", "d", "S", "e", "s", "s", "i", "o", "n", "s">>,
      <<"a", "v", "e", "r", "a", "g", "e", "S", "e", "s", "s", "i", "o", "n", "D", "u", "r", "a", "t", "i", "o", "n">>>>

AudienceDimensions ==
    <<<<"c", "o", "u", "n", "t", "r", "y">>,
      <<"c", "i", "t", "y">>,
      <<"d", "e", "v", "i", "c", "e", "C", "a", "t", "e", "g", "o", "r", "y">>,
      <<"o", "p", "e", "r", "a", "t", "i", "n", "g", "S", "y", "s", "t", "e", "m">>>>

build_audience_report_request(property_id, start_date, end_date, limit) ==
    [t |-> "RunReportRequest",
     property |-> property_field(property_id),
     dimensions |-> AudienceDimensions,
     metrics |-> AudienceMetrics,
     date_ranges |-> <<[start_date |-> start_date, end_date |-> end_date]>>,
     limit |-> limit,
     order_bys |-> <<[metric_name |-> <<"u", "s", "e", "r", "s">>, desc |-> TRUE]>>]

PopularPagesMetrics ==
    <<<<"s", "c", "r", "e", "e", "n", "P", "a", "g", "e", "V", "i", "e", "w", "s">>,
      <<"u", "s", "e", "r", "s">>,
      <<"s", "e", "s", "s", "i", "o", "n", "s">>,
      <<"a", "v", "e", "r", "a", "g", "e", "S", "e", "s", "s", "i", "o", "n", "D", "u", "r", "a", "t", "i", "o", "n">>,
      <<"b", "o", "u", "n", "c", "e", "R", "a", "t", "e">>>>

PopularPagesDimensions ==
    <<<<"p", "a", "g", "e", "T", "i", "t", "l", "e">>,
      <<"p", "a", "g", "e", "P", "a", "t", "h">>>>

build_popular_pages_request(property_id, start_date, end_date, limit) ==
    [t |-> "RunReportRequest",
     property |-> property_field(property_id),
     dimensions |-> PopularPagesDimensions,
     metrics |-> PopularPagesMetrics,
     date_ranges |-> <<[start_date |-> start_date, end_date |-> end_date]>>,
     limit |-> limit,
     order_bys |-> <<[metric_name |-> <<"s", "c", "r", "e", "e", "n", "P", "a", "g", "e", "V", "i", "e", "w", "s">>,
                      desc |-> TRUE]>>]

\* ---------------------------------------------------------- DataFormatter
\* DataFormatter._extract_metadata
_extract_metadata(response) ==
    IF response.metadata = None
    THEN Dict([k \in {"data_loss_from_other_row", "schema_restriction_response",
                      "currency_code", "time_zone"} |->
               IF k = "data_loss_from_other_row" THEN PyBool(FALSE) ELSE None])
    ELSE Dict([k \in {"data_loss_from_other_row", "schema_restriction_response",
                      "currency_code", "time_zone"} |-> response.metadata[k]])

header_names(headers) == PyList([i \in DOMAIN headers |-> Str(headers[i].name)])
typed_headers(headers) ==
    PyList([i \in DOMAIN headers |->
        Dict([k \in {"name", "type"} |->
              IF k = "name" THEN Str(headers[i].name) ELSE Str(headers[i].type_)])])
row_values(values) == PyList([i \in DOMAIN values |-> Str(values[i])])
\* mutant of formatted_rows: the rows come out last first
formatted_rows_reversed(rows) ==
    PyList([i \in DOMAIN rows |->
        Dict([k \in {"dimensions", "metrics"} |->
              IF k = "dimensions" THEN row_values(rows[Len(rows) + 1 - i].dimension_values)
              ELSE row_values(rows[Len(rows) + 1 - i].metric_values)])])
formatted_rows(rows) ==
    PyList([i \in DOMAIN rows |->
        Dict([k \in {"dimensions", "metrics"} |->
              IF k = "dimensions" THEN row_values(rows[i].dimension_values)
              ELSE row_values(rows[i].metric_values)])])

\* DataFormatter.format_report_response
format_report_response(response) ==
    Dict([k \in {"row_count", "metadata", "dimension_headers", "metric_headers", "rows"} |->
        CASE k = "row_count"         -> PyInt(response.row_count)
          [] k = "metadata"          -> _extract_metadata(response)
          [] k = "dimension_headers" -> header_names(response.dimension_headers)
          [] k = "metric_headers"    -> typed_headers(response.metric_headers)
          [] k = "rows"              -> formatted_rows(response.rows)])

\* DataFormatter.format_realtime_response
format_realtime_response(response) ==
    Dict([k \in {"row_count", "dimension_headers", "metric_headers", "rows"} |->
        CASE k = "row_count"         -> PyInt(response.row_count)
          [] k = "dimension_headers" -> header_names(response.dimension_headers)
          [] k = "metric_headers"    -> typed_headers(response.metric_headers)
          [] k = "rows"              -> formatted_rows(response.rows)])

\* DataFormatter.format_properties_response
format_properties_response(accounts_data) ==
    LET count(i) == IF "properties" \in DOMAIN accounts_data[i].v
                    THEN Len(accounts_data[i].v["properties"].v) ELSE 0
        sum[n \in 0..Len(accounts_data)] == IF n = 0 THEN 0 ELSE sum[n - 1] + count(n)
    IN Dict([k \in {"accounts", "total_accounts", "total_properties"} |->
        CASE k = "accounts"         -> PyList(accounts_data)
          [] k = "total_accounts"   -> PyInt(Len(accounts_data))
          [] k = "total_properties" -> PyInt(sum[Len(accounts_data)])])

\* -------------------------------------------------------------- GA4Client
\* GA4Client(): no credentials, no vendor clients
GA4Client_init == [_credentials |-> None, _analytics_client |-> None, _admin_client |-> None]

\* a vendor client object, built over the credentials it was given
BetaAnalyticsDataClient(c) == [t |-> "BetaAnalyticsDataClient", credentials |-> c]
AnalyticsAdminServiceClient(c) == [t |-> "AnalyticsAdminServiceClient", credentials |-> c]

\* the exception of a failing vendor constructor or vendor request
VendorError == Exc("GoogleAPICallError", <<"GoogleAPICallError">>)

\* GA4APIError(message, api_error)
GA4APIError(msg, api_error) == [type |-> "GA4APIError", msg |-> msg, api_error |-> api_error]

\* the two constructors run in order: both succeed, the first fails (nothing
\* is assigned), or the second fails (only the analytics client is replaced)
InitOutcomes == {"ok", "fail_analytics", "fail_admin"}

\* GA4Client._initialize_clients
_initialize_clients(g, init) ==
    IF g._credentials = None
    THEN [ga4_client |-> g,
          exc |-> Exc("AuthenticationError",
                      <<"No credentials provided for GA4 client initialization">>),
          log |-> <<>>]
    ELSE CASE init = "ok" ->
                [ga4_client |-> [g EXCEPT !._analytics_client = BetaAnalyticsDataClient(g._credentials),
                                          !._admin_client = AnalyticsAdminServiceClient(g._credentials)],
                 exc |-> NoExc, log |-> <<>>]
           [] init = "fail_analytics" ->
                [ga4_client |-> g,
                 exc |-> GA4APIError(<<"Failed to initialize GA4 clients: ">> \o VendorError.msg, None),
                 log |-> <<"Failed to initialize GA4 clients: ">>]
           [] init = "fail_admin" ->
                [ga4_client |-> [g EXCEPT !._analytics_client = BetaAnalyticsDataClient(g._credentials)],
                 exc |-> GA4APIError(<<"Failed to initialize GA4 clients: ">> \o VendorError.msg, None),
                 log |-> <<"Failed to initialize GA4 clients: ">>]

\* GA4Client.update_credentials: the credentials are replaced first
update_credentials(g, c, init) ==
    _initialize_clients([g EXCEPT !._credentials = c], init)

\* mutant of GA4Client_is_authenticated: the expiry of the credentials is
\* not looked at
GA4Client_is_authenticated_ignoring_expiry(g, t) ==
    /\ g._credentials # None
    /\ g._analytics_client # None
    /\ g._admin_client # None

\* GA4Client.is_authenticated
GA4Client_is_authenticated(g, t) ==
    /\ g._credentials # None
    /\ ~expired(g._credentials, t)
    /\ g._analytics_client # None
    /\ g._admin_client # None

\* the result of a GA4Client method that raises before any vendor request
raises(e, log) == [exc |-> e, ret |-> None, calls |-> <<>>, sent |-> <<>>, log |-> log]

\* GA4Client._ensure_authenticated
_ensure_authenticated(g, t) ==
    IF ~GA4Client_is_authenticated(g, t)
    THEN Exc("AuthenticationError",
             <<"Not authenticated. Please authenticate before making API calls.">>)
    ELSE NoExc

\* the responses of the vendor to a report request
SampleResponse ==
    [row_count |-> 2,
     metadata |-> None,
     dimension_headers |-> <<[name |-> "date"]>>,
     metric_headers |-> <<[name |-> "sessions", type_ |-> "TYPE_INTEGER"]>>,
     rows |-> <<[dimension_values |-> <<"20240101">>, metric_values |-> <<"5">>],
                [dimension_values |-> <<"20240102">>, metric_values |-> <<"7">>]>>]
ReportOutcomes == {[ok |-> FALSE], [ok |-> TRUE, response |-> SampleResponse]}

\* the end of each report method: the request is sent once with the client's
\* credentials, the response is formatted, and any exception is logged and
\* raised as GA4APIError(f"{context}{e}", e)
vendor_request(client, method, request, v, realtime, context) ==
    IF ~v.ok
    THEN [exc |-> GA4APIError(<<context>> \o VendorError.msg, VendorError), ret |-> None,
          calls |-> <<method>>,
          sent |-> <<[method |-> method, request |-> request, credentials |-> client.credentials]>>,
          log |-> <<context>>]
    ELSE [exc |-> NoExc,
          ret |-> IF realtime THEN format_realtime_response(v.response)
                  ELSE format_report_response(v.response),
          calls |-> <<method>>,
          sent |-> <<[method |-> method, request |-> request, credentials |-> client.credentials]>>,
          log |-> <<>>]

\* GA4Client.get_standard_report; a is the record of its parameters
get_standard_report(g, t, a, v) ==
    LET context == "Failed to get standard report: "
        wrapped(e) == raises(GA4APIError(<<context>> \o e.msg, e), <<context>>)
        property_id == validate_property_id(a.property_id)
        date_range == validate_date_range(a.start_date, a.end_date)
        metrics == validate_metrics(a.metrics)
        dimensions == validate_dimensions(a.dimensions)
        limit == validate_limit(a.limit)
    IN IF _ensure_authenticated(g, t) # NoExc THEN raises(_ensure_authenticated(g, t), <<>>)
       ELSE IF property_id.exc # NoExc THEN wrapped(property_id.exc)
       ELSE IF date_range.exc # NoExc THEN wrapped(date_range.exc)
       ELSE IF metrics.exc # NoExc THEN wrapped(metrics.exc)
       ELSE IF dimensions.exc # NoExc THEN wrapped(dimensions.exc)
       ELSE IF limit.exc # NoExc THEN wrapped(limit.exc)
       ELSE vendor_request(g._analytics_client, "run_report",
                build_standard_report_request(property_id.ret, date_range.ret[1], date_range.ret[2],
                                              a.metrics, a.dimensions, limit.ret),
                v, FALSE, context)

\* GA4Client.get_realtime_data
get_realtime_data(g, t, a, v) ==
    IF _ensure_authenticated(g, t) # NoExc THEN raises(_ensure_authenticated(g, t), <<>>)
    ELSE vendor_request(g._analytics_client, "run_realtime_report",
             build_realtime_report_request(a.property_id, a.metrics, a.dimensions, a.limit),
             v, TRUE, "Failed to get realtime data: ")

\* GA4Client.get_audience_data
get_audience_data(g, t, a, v) ==
    IF _ensure_authenticated(g, t) # NoExc THEN raises(_ensure_authenticated(g, t), <<>>)
    ELSE vendor_request(g._analytics_client, "run_report",
             build_audience_report_request(a.property_id, a.start_date, a.end_date, a.limit),
             v, FALSE, "Failed to get audience data: ")

\* GA4Client.get_popular_pages
get_popular_pages(g, t, a, v) ==
    IF _ensure_authenticated(g, t) # NoExc THEN raises(_ensure_authenticated(g, t), <<>>)
    ELSE vendor_request(g._analytics_client, "run_report",
             build_popular_pages_request(a.property_id, a.start_date, a.end_date, a.limit),
             v, FALSE, "Failed to get popular pages: ")

\* a str given by the fragments its f-string concatenates
Fstr(parts) == [t |-> "fstr", parts |-> parts]

\* the accounts the vendor lists: account i is "accounts/i" and has one
\* property, "properties/i"
account_name(i) == Fstr(<<"accounts/", i>>)

property_data(i) ==
    Dict([k \in {"property_id", "property_name", "property_resource_name", "currency_code",
                 "time_zone", "create_time", "parent"} |->
        CASE k = "property_id"            -> Fstr(<<i>>)
          [] k = "property_name"          -> Fstr(<<"Property ", i>>)
          [] k = "property_resource_name" -> Fstr(<<"properties/", i>>)
          [] k = "currency_code"          -> Str("USD")
          [] k = "time_zone"              -> Str("UTC")
          [] k = "create_time"            -> None
          [] k = "parent"                 -> account_name(i)])

\* the account_data dict of list_properties for account i, whose property
\* listing succeeded or raised
account_data(i, listing) ==
    LET keys == {"account_id", "account_name", "account_resource_name", "properties"}
                \cup (IF listing = "ok" THEN {} ELSE {"properties_error"})
    IN Dict([k \in keys |->
        CASE k = "account_id"            -> Fstr(<<i>>)
          [] k = "account_name"          -> Fstr(<<"Account ", i>>)
          [] k = "account_resource_name" -> account_name(i)
          [] k = "properties"            -> IF listing = "ok" THEN PyList(<<property_data(i)>>)
                                            ELSE PyList(<<>>)
          [] k = "properties_error"      -> Fstr(<<"Could not list properties: ">> \o VendorError.msg)])

\* the number of accounts the vendor lists at most
MaxAccounts == 2

\* list_accounts fails, or lists some accounts; the property listing of each
\* account succeeds or fails
ListingOutcomes ==
    {[ok |-> FALSE]} \cup
    {[ok |-> TRUE, listings |-> l] :
        l \in UNION {[1..n -> {"ok", "fail"}] : n \in 0..MaxAccounts}}

\* the loop of list_properties over the listed accounts: one property
\* listing per account, a failure of it is kept in the account's data as
\* properties_error and the loop goes on
list_properties_of_accounts(client, listings) ==
    [calls |-> <<"list_accounts">> \o [i \in DOMAIN listings |-> "list_properties"],
     sent |-> [i \in DOMAIN listings |->
                  [method |-> "list_properties",
                   request |-> [t |-> "ListPropertiesRequest",
                                filter |-> Fstr(<<"parent:", "accounts/", i>>)],
                   credentials |-> client.credentials]],
     accounts_data |-> [i \in DOMAIN listings |-> account_data(i, listings[i])]]

\* GA4Client.list_properties
list_properties(g, t, v) ==
    LET context == "Failed to list properties: "
    IN IF _ensure_authenticated(g, t) # NoExc THEN raises(_ensure_authenticated(g, t), <<>>)
       ELSE IF g._admin_client = None
       THEN raises(GA4APIError(<<"Admin client not initialized for property listing">>, None), <<>>)
       ELSE IF ~v.ok
       THEN [exc |-> GA4APIError(<<context>> \o VendorError.msg, VendorError), ret |-> None,
             calls |-> <<"list_accounts">>,
             sent |-> <<[method |-> "list_accounts", request |-> None,
                         credentials |-> g._admin_client.credentials]>>,
             log |-> <<context>>]
       ELSE LET listed == list_properties_of_accounts(g._admin_client, v.listings)
            IN [exc |-> NoExc,
                ret |-> format_properties_response(listed.accounts_data),
                calls |-> listed.calls,
                sent |-> <<[method |-> "list_accounts", request |-> None,
                            credentials |-> g._admin_client.credentials]>> \o listed.sent,
                log |-> <<>>]

\* ----------------------------------------------------------------- server
\* json.dumps(value, indent=2): the str holding the JSON text of the value
json_dumps(v) == [t |-> "jsontext", doc |-> json_dump(v)]

\* the values a tool may hand to the transport: str
IsStr(v) == v.t \in {"str", "fstr", "jsontext"}

NotAuthenticated ==
    Fstr(<<"Error: Not authenticated", ". Use start_oauth_flow or load_saved_credentials first.">>)

\* mutant of tool_boundary: the handler is `except AuthenticationError`
tool_boundary_auth_errors_only(exc, context, value) ==
    IF exc # NoExc /\ IsInstance(exc, "AuthenticationError")
    THEN [exc |-> NoExc, ret |-> Fstr(<<context>> \o exc.msg), log |-> <<context>>]
    ELSE IF exc # NoExc
    THEN [exc |-> exc, ret |-> None, log |-> <<>>]
    ELSE [exc |-> NoExc, ret |-> value, log |-> <<>>]

\* the try / `except Exception as e` around the body of every tool: the
\* exception is logged and its text is returned behind the tool's prefix
tool_boundary(exc, context, value) ==
    IF exc # NoExc
    THEN [exc |-> NoExc, ret |-> Fstr(<<context>> \o exc.msg), log |-> <<context>>]
    ELSE [exc |-> NoExc, ret |-> value, log |-> <<>>]

\* what a tool call leaves: the state of the managers and of the GA4 client,
\* the exception that crosses the tool boundary, the str returned, the
\* exception raised inside (core), the external calls and the vendor requests
tool_start_oauth_flow(s, cur, cfile, ffile, g, state, helperOk, io) ==
    LET r == start_oauth_flow(s, cur, cfile, ffile, state, helperOk, io)
        b == tool_boundary(r.exc, "Error starting OAuth flow: ",
                 [t |-> "fstr",
                  parts |-> <<"Please visit this URL to authorize the application: ">>,
                  auth_url |-> r.ret])
    IN [_credentials |-> r._credentials, credFile |-> r.credFile, flowFile |-> r.flowFile,
        ga4_client |-> g, exc |-> b.exc, ret |-> b.ret, core |-> r.exc,
        calls |-> r.calls, sent |-> <<>>, log |-> r.log \o b.log]

tool_complete_oauth_flow(cur, cfile, ffile, g, code, t, x, wio, rio, init) ==
    LET r == complete_oauth_flow(cur, cfile, ffile, code, t, x, wio, rio)
        u == IF r.exc # NoExc THEN [ga4_client |-> g, exc |-> r.exc, log |-> <<>>]
             ELSE update_credentials(g, r.ret, init)
        b == tool_boundary(u.exc, "Error completing OAuth flow: ",
                 Str("OAuth2 authentication completed successfully. GA4 client is now ready."))
    IN [_credentials |-> r._credentials, credFile |-> r.credFile, flowFile |-> r.flowFile,
        ga4_client |-> u.ga4_client, exc |-> b.exc, ret |-> b.ret, core |-> u.exc,
        calls |-> r.calls, sent |-> <<>>, log |-> r.log \o u.log \o b.log]

tool_load_saved_credentials(cur, cfile, ffile, g, init) ==
    LET r == load_saved_credentials(cur, cfile, ffile)
        u == IF r.exc # NoExc THEN [ga4_client |-> g, exc |-> r.exc, log |-> <<>>]
             ELSE update_credentials(g, r.ret, init)
        b == tool_boundary(u.exc, "Error loading saved credentials: ",
                 Str("Saved credentials loaded successfully. GA4 and Admin clients are ready."))
    IN [_credentials |-> r._credentials, credFile |-> r.credFile, flowFile |-> r.flowFile,
        ga4_client |-> u.ga4_client, exc |-> b.exc, ret |-> b.ret, core |-> u.exc,
        calls |-> r.calls, sent |-> <<>>, log |-> r.log \o u.log \o b.log]

\* the result of a tool that changes nothing
reads_only(cur, cfile, ffile, g, b, core, calls, sent, log) ==
    [_credentials |-> cur, credFile |-> cfile, flowFile |-> ffile, ga4_client |-> g,
     exc |-> b.exc, ret |-> b.ret, core |-> core,
     calls |-> calls, sent |-> sent, log |-> log \o b.log]

tool_check_auth_status(cur, cfile, ffile, g, t) ==
    reads_only(cur, cfile, ffile, g,
               tool_boundary(NoExc, "Error checking auth status: ",
                             Str(check_auth_status(cur, t).v[2])),
               NoExc, <<>>, <<>>, <<>>)

\* Settings.get_debug_info, with GA4_PROPERTY_ID not set
get_debug_info(s, env_file_exists) ==
    Dict([k \in {"env_file_exists", "variables", "GA4_CLIENT_ID_preview"} |->
        CASE k = "env_file_exists" -> PyBool(env_file_exists)
          [] k = "variables" ->
                Dict([n \in {"GA4_CLIENT_ID", "GA4_CLIENT_SECRET", "GA4_PROPERTY_ID"} |->
                    CASE n = "GA4_CLIENT_ID" ->
                            IF Truthy(s._client_id) THEN Str("[SET]") ELSE Str("[NOT SET]")
                      [] n = "GA4_CLIENT_SECRET" ->
                            IF Truthy(s._client_secret) THEN Str("[SET]") ELSE Str("[NOT SET]")
                      [] n = "GA4_PROPERTY_ID" -> Str("[NOT SET]")])
          [] k = "GA4_CLIENT_ID_preview" ->
                IF Truthy(s._client_id) THEN Fstr(<<s._client_id.v, "...">>) ELSE None])

tool_debug_env_vars(s, cur, cfile, ffile, g, env_file_exists) ==
    reads_only(cur, cfile, ffile, g,
               tool_boundary(NoExc, "Error debugging environment variables: ",
                             json_dumps(get_debug_info(s, env_file_exists))),
               NoExc, <<>>, <<>>, <<>>)

\* a data tool: the gate on GA4Client.is_authenticated at time t, then the
\* GA4Client method, whose own check reads the clock again at time t2
data_tool(cur, cfile, ffile, g, t, r, context) ==
    IF ~GA4Client_is_authenticated(g, t)
    THEN reads_only(cur, cfile, ffile, g, [exc |-> NoExc, ret |-> NotAuthenticated, log |-> <<>>],
                    NoExc, <<>>, <<>>, <<>>)
    ELSE reads_only(cur, cfile, ffile, g,
                    tool_boundary(r.exc, context, json_dumps(IF r.exc = NoExc THEN r.ret ELSE None)),
                    r.exc, r.calls, r.sent, r.log)

tool_list_properties(cur, cfile, ffile, g, t, t2, v) ==
    data_tool(cur, cfile, ffile, g, t, list_properties(g, t2, v), "Error listing properties: ")

tool_get_ga4_report(cur, cfile, ffile, g, t, t2, a, v) ==
    data_tool(cur, cfile, ffile, g, t, get_standard_report(g, t2, a, v), "Error getting GA4 report: ")

tool_get_realtime_data(cur, cfile, ffile, g, t, t2, a, v) ==
    data_tool(cur, cfile, ffile, g, t, get_realtime_data(g, t2, a, v), "Error getting real-time data: ")

tool_get_ga4_audience_data(cur, cfile, ffile, g, t, t2, a, v) ==
    data_tool(cur, cfile, ffile, g, t, get_audience_data(g, t2, a, v), "Error getting audience data: ")

tool_get_popular_pages(cur, cfile, ffile, g, t, t2, a, v) ==
    data_tool(cur, cfile, ffile, g, t, get_popular_pages(g, t2, a, v), "Error getting popular pages: ")

\* ------------------------------------------------------------ environment
\* What a test, a user or an earlier process can leave in the files
\* (or remove: Absent).
FullCredsData ==
    Dict([k \in CredentialKeys |->
        CASE k = "token"         -> Str("tokA")
          [] k = "refresh_token" -> Str("ref")
          [] k = "token_uri"     -> GOOGLE_TOKEN_URI
          [] k = "client_id"     -> Str("cid")
          [] k = "client_secret" -> Str("sec")
          [] k = "scopes"        -> GA4_SCOPES])

Without(d, key) == Dict([k \in (DOMAIN d.v) \ {key} |-> d.v[k]])

ExternalCredentialsFiles ==
    {Absent,
     Text,
     Json(json_dump(PyList(<<>>))),
     Json(json_dump(Dict([k \in {"test"} |-> Str("data")]))),
     Json(json_dump(FullCredsData))}
    \cup {Json(json_dump(Without(FullCredsData, k))) : k \in CredentialKeys}

ExternalFlowStateFiles ==
    {Absent,
     Text,
     Json(json_dump(Dict([k \in {"state"} |-> Str("st1")])))}

\* a state token that start_oauth_flow never issued
ForgedState == "forged"

\* the flow state file with its state token replaced, the client
\* configuration untouched
WithState(file, state) ==
    LET flow_state == json_load(file.doc)
    IN Json(json_dump(Dict([k \in DOMAIN flow_state.v |->
            IF k = "state" THEN Str(state) ELSE flow_state.v[k]])))

\* the credentials a caller hands to save_credentials
SampleCredentials ==
    {Credentials(Str("tokC"), Str("ref"), GOOGLE_TOKEN_URI, Str("cid"), Str("sec"), GA4_SCOPES,
                 DateTime(TokenLifetime)),
     Credentials(Str("tokD"), None, None, None, None, None, None)}

\* the parameters callers hand to the data tools: a valid set, and sets
\* with one parameter that DataValidator rejects
GoodPropertyId == <<"1", "2", "3">>
PrefixedPropertyId == PropertiesPrefix \o GoodPropertyId
BadPropertyId == <<"a", "b", "c">>
GoodStartDate == <<"7", "d", "a", "y", "s", "A", "g", "o">>
GoodEndDate == <<"t", "o", "d", "a", "y">>
BadStartDate == <<"2", "0", "2", "4", "-", "0", "2", "-", "3", "0">>
GoodMetrics == <<"s", "e", "s", "s", "i", "o", "n", "s", ",", " ", "u", "s", "e", "r", "s">>
BadMetrics == <<"s", "e", "s", "s", "i", "o", "n", "s", ",", ",", "u", "s", "e", "r", "s">>
GoodDimensions == <<"d", "a", "t", "e">>
BadDimensions == <<>>
GoodLimit == PyInt(10)
BadLimit == PyInt(0)

GoodStandardArgs ==
    [property_id |-> GoodPropertyId, start_date |-> GoodStartDate, end_date |-> GoodEndDate,
     metrics |-> GoodMetrics, dimensions |-> GoodDimensions, limit |-> GoodLimit]
StandardArgs ==
    {GoodStandardArgs,
     [GoodStandardArgs EXCEPT !.property_id = PrefixedPropertyId],
     [GoodStandardArgs EXCEPT !.property_id = BadPropertyId],
     [GoodStandardArgs EXCEPT !.start_date = BadStartDate],
     [GoodStandardArgs EXCEPT !.metrics = BadMetrics],
     [GoodStandardArgs EXCEPT !.dimensions = BadDimensions],
     [GoodStandardArgs EXCEPT !.limit = BadLimit]}

GoodRealtimeArgs ==
    [property_id |-> GoodPropertyId, metrics |-> GoodMetrics, dimensions |-> GoodDimensions,
     limit |-> GoodLimit]
RealtimeArgs ==
    {GoodRealtimeArgs,
     [GoodRealtimeArgs EXCEPT !.property_id = BadPropertyId],
     [GoodRealtimeArgs EXCEPT !.metrics = BadMetrics],
     [GoodRealtimeArgs EXCEPT !.limit = BadLimit]}

GoodDatedArgs ==
    [property_id |-> GoodPropertyId, start_date |-> GoodStartDate, end_date |-> GoodEndDate,
     limit |-> GoodLimit]
DatedArgs ==
    {GoodDatedArgs,
     [GoodDatedArgs EXCEPT !.property_id = BadPropertyId],
     [GoodDatedArgs EXCEPT !.start_date = BadStartDate],
     [GoodDatedArgs EXCEPT !.limit = BadLimit]}

\* the concurrent callers of start_oauth_flow, each idle, past the generation
\* of its state token, returned or failed; last is the URL returned by the
\* last start whose write succeeded
Callers == {"a", "b"}

NotStarted == [pc |-> "idle", state |-> None, url |-> None, concurrent |-> FALSE]
NoStarts == [calls |-> [c \in Callers |-> NotStarted], last |-> None]

\* no complete_oauth_flow call is in progress
NoComplete == [pc |-> "idle", code |-> None, c |-> None, flow |-> None]

\* ---------------------------------------------------------------- actions
Call(op, arg, r) ==
    [op |-> op, arg |-> arg, exc |-> r.exc, ret |-> r.ret, calls |-> r.calls, log |-> r.log]

NoCall(op) ==
    [op |-> op, arg |-> None, exc |-> NoExc, ret |-> None, calls |-> <<>>, log |-> <<>>]

Init ==
    /\ settings \in {Settings_init(id, secret) : id \in ClientIdValues, secret \in ClientSecretValues}
    /\ credentials = None
    /\ credFile = Absent
    /\ flowFile = Absent
    /\ now = 0
    /\ ga4_client = GA4Client_init
    /\ starts = NoStarts
    /\ completing = NoComplete
    /\ lastCall = NoCall("init")

StartOAuthFlow ==
    \E state \in StateTokens, helperOk \in BOOLEAN, io \in WriteOutcomes :
        LET r == start_oauth_flow(settings, credentials, credFile, flowFile, state, helperOk, io)
        IN /\ flowFile' = r.flowFile
           /\ lastCall' = Call("start_oauth_flow", None, r)
           /\ UNCHANGED <<settings, credentials, credFile, now, ga4_client, starts, completing>>

CompleteOAuthFlow ==
    \E code \in Codes, x \in ExchangeOutcomes, wio \in WriteOutcomes, rio \in RemoveOutcomes :
        LET r == complete_oauth_flow(credentials, credFile, flowFile, code, now, x, wio, rio)
        IN /\ credentials' = r._credentials
           /\ credFile' = r.credFile
           /\ flowFile' = r.flowFile
           /\ lastCall' = Call("complete_oauth_flow", Str(code), r) @@ [flow |-> r.flow]
           /\ UNCHANGED <<settings, now, ga4_client, starts, completing>>

SaveCredentials ==
    \E c \in SampleCredentials, io \in WriteOutcomes :
        LET r == save_credentials(credentials, credFile, c, io)
        IN /\ credentials' = r._credentials
           /\ credFile' = r.credFile
           /\ lastCall' = Call("save_credentials", c, r)
           /\ UNCHANGED <<settings, flowFile, now, ga4_client, starts, completing>>

LoadCredentials ==
    LET r == load_credentials(credentials, credFile)
    IN /\ credentials' = r._credentials
       /\ credFile' = r.credFile
       /\ lastCall' = Call("load_credentials", None, r)
       /\ UNCHANGED <<settings, flowFile, now, ga4_client, starts, completing>>

LoadSavedCredentials ==
    LET r == load_saved_credentials(credentials, credFile, flowFile)
    IN /\ credentials' = r._credentials
       /\ credFile' = r.credFile
       /\ lastCall' = Call("load_saved_credentials", None, r)
       /\ UNCHANGED <<settings, flowFile, now, ga4_client, starts, completing>>

ClearCredentials ==
    \E io \in RemoveOutcomes :
        LET r == clear_credentials(credentials, credFile, io)
        IN /\ credentials' = r._credentials
           /\ credFile' = r.credFile
           /\ lastCall' = Call("clear_credentials", None, r)
           /\ UNCHANGED <<settings, flowFile, now, ga4_client, starts, completing>>

ResetAuthentication ==
    \E cio \in RemoveOutcomes, fio \in RemoveOutcomes :
        LET r == reset_authentication(credentials, credFile, flowFile, cio, fio)
        IN /\ credentials' = r._credentials
           /\ credFile' = r.credFile
           /\ flowFile' = r.flowFile
           /\ lastCall' = Call("reset_authentication", None, r)
           /\ UNCHANGED <<settings, now, ga4_client, starts, completing>>

CheckAuthStatus ==
    /\ lastCall' = [NoCall("check_auth_status") EXCEPT !.ret = check_auth_status(credentials, now)]
    /\ UNCHANGED <<settings, credentials, credFile, flowFile, now, ga4_client, starts, completing>>

\* time passes
Tick ==
    /\ now < MaxTime
    /\ now' = now + 1
    /\ lastCall' = NoCall("tick")
    /\ UNCHANGED <<settings, credentials, credFile, flowFile, ga4_client, starts, completing>>

ExternalChangeCredentialsFile ==
    \E f \in ExternalCredentialsFiles :
        /\ credFile' = f
        /\ lastCall' = NoCall("external_change")
        /\ UNCHANGED <<settings, credentials, flowFile, now, ga4_client, starts, completing>>

ExternalChangeFlowStateFile ==
    \E f \in ExternalFlowStateFiles :
        /\ flowFile' = f
        /\ lastCall' = NoCall("external_change")
        /\ UNCHANGED <<settings, credentials, credFile, now, ga4_client, starts, completing>>

\* somebody with access to the working directory edits the state token in
\* the flow state file that start_oauth_flow wrote
TamperFlowStateFile ==
    /\ flowFile.kind = "json"
    /\ json_load(flowFile.doc).t = "dict"
    /\ "state" \in DOMAIN json_load(flowFile.doc).v
    /\ flowFile' = WithState(flowFile, ForgedState)
    /\ lastCall' = NoCall("external_change")
    /\ UNCHANGED <<settings, credentials, credFile, now, ga4_client, starts, completing>>

Next ==
    \/ StartOAuthFlow
    \/ CompleteOAuthFlow
    \/ SaveCredentials
    \/ LoadCredentials
    \/ LoadSavedCredentials
    \/ ClearCredentials
    \/ ResetAuthentication
    \/ CheckAuthStatus
    \/ Tick
    \/ ExternalChangeCredentialsFile
    \/ ExternalChangeFlowStateFile

Spec == Init /\ [][Next]_vars

\* the OAuth flow with a flow state file that can be tampered with between
\* start and complete
NextTampered ==
    \/ StartOAuthFlow
    \/ CompleteOAuthFlow
    \/ TamperFlowStateFile
    \/ CheckAuthStatus
    \/ Tick

SpecTampered == Init /\ [][NextTampered]_vars

\* ------------------------------------------------------- the server's tools
ToolCall(op, arg, r) ==
    [op |-> op, arg |-> arg, exc |-> r.exc, ret |-> r.ret, core |-> r.core,
     calls |-> r.calls, sent |-> r.sent, log |-> r.log]

\* the parameters and the vendor's answers tried through the tools
ToolStandardArgs == {GoodStandardArgs, [GoodStandardArgs EXCEPT !.property_id = BadPropertyId]}
\* the clock readings of a call that reads the clock twice
Later == {t2 \in {now, now + 1} : t2 <= MaxTime}

ToolListingOutcomes == {v \in ListingOutcomes : v.ok => Len(v.listings) = 1}
ToolStateTokens == {"st1"}
ToolExchangeOutcomes == {x \in ExchangeOutcomes : x.ok => x.refresh_token # None}

\* each tool action binds r, the outcome of the tool, by a quantifier over the
\* one-element set of that outcome
ToolStartOAuthFlow ==
    \E state \in ToolStateTokens, helperOk \in BOOLEAN, io \in WriteOutcomes :
        \E r \in {tool_start_oauth_flow(settings, credentials, credFile, flowFile, ga4_client,
                                        state, helperOk, io)} :
           /\ credentials' = r._credentials
           /\ credFile' = r.credFile
           /\ flowFile' = r.flowFile
           /\ ga4_client' = r.ga4_client
           /\ now' = now
           /\ lastCall' = ToolCall("tool_start_oauth_flow", None, r)
           /\ UNCHANGED <<settings, starts, completing>>

ToolCompleteOAuthFlow ==
    \E code \in Codes, x \in ToolExchangeOutcomes, wio \in WriteOutcomes, rio \in RemoveOutcomes,
       init \in InitOutcomes :
        \E r \in {tool_complete_oauth_flow(credentials, credFile, flowFile, ga4_client,
                                           code, now, x, wio, rio, init)} :
           /\ credentials' = r._credentials
           /\ credFile' = r.credFile
           /\ flowFile' = r.flowFile
           /\ ga4_client' = r.ga4_client
           /\ now' = now
           /\ lastCall' = ToolCall("tool_complete_oauth_flow", Str(code), r)
           /\ UNCHANGED <<settings, starts, completing>>

ToolLoadSavedCredentials ==
    \E init \in InitOutcomes :
        \E r \in {tool_load_saved_credentials(credentials, credFile, flowFile, ga4_client, init)} :
           /\ credentials' = r._credentials
           /\ credFile' = r.credFile
           /\ flowFile' = r.flowFile
           /\ ga4_client' = r.ga4_client
           /\ now' = now
           /\ lastCall' = ToolCall("tool_load_saved_credentials", None, r)
           /\ UNCHANGED <<settings, starts, completing>>

ToolCheckAuthStatus ==
    \E r \in {tool_check_auth_status(credentials, credFile, flowFile, ga4_client, now)} :
       /\ credentials' = r._credentials
       /\ credFile' = r.credFile
       /\ flowFile' = r.flowFile
       /\ ga4_client' = r.ga4_client
       /\ now' = now
       /\ lastCall' = ToolCall("tool_check_auth_status", None, r)
       /\ UNCHANGED <<settings, starts, completing>>

ToolDebugEnvVars ==
    \E env_file_exists \in BOOLEAN :
        \E r \in {tool_debug_env_vars(settings, credentials, credFile, flowFile, ga4_client,
                                      env_file_exists)} :
           /\ credentials' = r._credentials
           /\ credFile' = r.credFile
           /\ flowFile' = r.flowFile
           /\ ga4_client' = r.ga4_client
           /\ now' = now
           /\ lastCall' = ToolCall("tool_debug_env_vars", None, r)
           /\ UNCHANGED <<settings, starts, completing>>

ToolListProperties ==
    \E t2 \in Later, v \in ToolListingOutcomes :
        \E r \in {tool_list_properties(credentials, credFile, flowFile, ga4_client, now, t2, v)} :
           /\ credentials' = r._credentials
           /\ credFile' = r.credFile
           /\ flowFile' = r.flowFile
           /\ ga4_client' = r.ga4_client
           /\ now' = t2
           /\ lastCall' = ToolCall("tool_list_properties", None, r)
           /\ UNCHANGED <<settings, starts, completing>>

ToolGetGA4Report ==
    \E t2 \in Later, a \in ToolStandardArgs, v \in ReportOutcomes :
        \E r \in {tool_get_ga4_report(credentials, credFile, flowFile, ga4_client, now, t2, a, v)} :
           /\ credentials' = r._credentials
           /\ credFile' = r.credFile
           /\ flowFile' = r.flowFile
           /\ ga4_client' = r.ga4_client
           /\ now' = t2
           /\ lastCall' = ToolCall("tool_get_ga4_report", a, r)
           /\ UNCHANGED <<settings, starts, completing>>

ToolGetRealtimeData ==
    \E t2 \in Later, v \in ReportOutcomes :
        \E r \in {tool_get_realtime_data(credentials, credFile, flowFile, ga4_client, now, t2,
                                         GoodRealtimeArgs, v)} :
           /\ credentials' = r._credentials
           /\ credFile' = r.credFile
           /\ flowFile' = r.flowFile
           /\ ga4_client' = r.ga4_client
           /\ now' = t2
           /\ lastCall' = ToolCall("tool_get_realtime_data", GoodRealtimeArgs, r)
           /\ UNCHANGED <<settings, starts, completing>>

ToolGetGA4AudienceData ==
    \E t2 \in Later, v \in ReportOutcomes :
        \E r \in {tool_get_ga4_audience_data(credentials, credFile, flowFile, ga4_client, now, t2,
                                             GoodDatedArgs, v)} :
           /\ credentials' = r._credentials
           /\ credFile' = r.credFile
           /\ flowFile' = r.flowFile
           /\ ga4_client' = r.ga4_client
           /\ now' = t2
           /\ lastCall' = ToolCall("tool_get_ga4_audience_data", GoodDatedArgs, r)
           /\ UNCHANGED <<settings, starts, completing>>

ToolGetPopularPages ==
    \E t2 \in Later, v \in ReportOutcomes :
        \E r \in {tool_get_popular_pages(credentials, credFile, flowFile, ga4_client, now, t2,
                                         GoodDatedArgs, v)} :
           /\ credentials' = r._credentials
           /\ credFile' = r.credFile
           /\ flowFile' = r.flowFile
           /\ ga4_client' = r.ga4_client
           /\ now' = t2
           /\ lastCall' = ToolCall("tool_get_popular_pages", GoodDatedArgs, r)
           /\ UNCHANGED <<settings, starts, completing>>

NextServer ==
    \/ ToolStartOAuthFlow
    \/ ToolCompleteOAuthFlow
    \/ ToolLoadSavedCredentials
    \/ ToolCheckAuthStatus
    \/ ToolDebugEnvVars
    \/ ToolListProperties
    \/ ToolGetGA4Report
    \/ ToolGetRealtimeData
    \/ ToolGetGA4AudienceData
    \/ ToolGetPopularPages
    \/ Tick

\* the server is started with both OAuth variables set, or with neither
InitServer ==
    /\ Init
    /\ has_required_credentials(settings) \/ settings = Settings_init(None, None)

SpecServer == InitServer /\ [][NextServer]_vars

\* ------------------------------------------------- the GA4Client on its own
\* A GA4Client used directly: it is given credentials and its methods are
\* called, authenticated or not.
UpdateCredentials ==
    \E c \in SampleCredentials, init \in InitOutcomes :
        LET r == update_credentials(ga4_client, c, init)
        IN /\ ga4_client' = r.ga4_client
           /\ lastCall' = [NoCall("update_credentials") EXCEPT !.arg = c, !.exc = r.exc, !.log = r.log]
           /\ UNCHANGED <<settings, credentials, credFile, flowFile, now, starts, completing>>

GetStandardReport ==
    \E a \in StandardArgs, v \in ReportOutcomes :
        LET r == get_standard_report(ga4_client, now, a, v)
        IN /\ lastCall' = Call("get_standard_report", a, r) @@ [sent |-> r.sent]
           /\ UNCHANGED <<settings, credentials, credFile, flowFile, now, ga4_client, starts, completing>>

GetRealtimeData ==
    \E a \in RealtimeArgs, v \in ReportOutcomes :
        LET r == get_realtime_data(ga4_client, now, a, v)
        IN /\ lastCall' = Call("get_realtime_data", a, r) @@ [sent |-> r.sent]
           /\ UNCHANGED <<settings, credentials, credFile, flowFile, now, ga4_client, starts, completing>>

GetAudienceData ==
    \E a \in DatedArgs, v \in ReportOutcomes :
        LET r == get_audience_data(ga4_client, now, a, v)
        IN /\ lastCall' = Call("get_audience_data", a, r) @@ [sent |-> r.sent]
           /\ UNCHANGED <<settings, credentials, credFile, flowFile, now, ga4_client, starts, completing>>

GetPopularPages ==
    \E a \in DatedArgs, v \in ReportOutcomes :
        LET r == get_popular_pages(ga4_client, now, a, v)
        IN /\ lastCall' = Call("get_popular_pages", a, r) @@ [sent |-> r.sent]
           /\ UNCHANGED <<settings, credentials, credFile, flowFile, now, ga4_client, starts, completing>>

ListProperties ==
    \E v \in ListingOutcomes :
        LET r == list_properties(ga4_client, now, v)
        IN /\ lastCall' = Call("list_properties", None, r) @@ [sent |-> r.sent]
           /\ UNCHANGED <<settings, credentials, credFile, flowFile, now, ga4_client, starts, completing>>

NextClient ==
    \/ UpdateCredentials
    \/ GetStandardReport
    \/ GetRealtimeData
    \/ GetAudienceData
    \/ GetPopularPages
    \/ ListProperties
    \/ Tick

SpecClient == Init /\ [][NextClient]_vars

\* ------------------------------------------- validator, builders, formatter
\* The pure functions of the report path, each applied to inputs drawn from
\* bounded sets.  A property id is a concatenation of at most MaxPieces
\* pieces: the prefix, ASCII digits, a digit that is not decimal, a letter.
MaxPieces == 3
MaxRows == 2

PropertyIdPieces ==
    {PropertiesPrefix, <<"1">>, <<"2">>, <<SuperscriptTwo>>, <<"a">>}

RECURSIVE concat(_)
concat(pieces) == IF pieces = <<>> THEN <<>> ELSE Head(pieces) \o concat(Tail(pieces))

PropertyIdInputs ==
    {concat(ps) : ps \in UNION {[1..n -> PropertyIdPieces] : n \in 0..MaxPieces}}

\* rows of a vendor response: dimension and metric values of several lengths
RowSamples ==
    {[dimension_values |-> d, metric_values |-> m] :
        d \in {<<>>, <<"a">>, <<"a", "b">>, <<"b", "a">>}, m \in {<<"1">>, <<"1", "2">>}}

\* responses of at most MaxRows rows; row_count is the vendor's count of the
\* rows that matched, which can exceed the number of rows returned
ResponseInputs ==
    {[SampleResponse EXCEPT !.rows = rows, !.row_count = Len(rows) + more] :
        rows \in UNION {[1..n -> RowSamples] : n \in 0..MaxRows}, more \in {0, 1}}

Returns(v) == [exc |-> NoExc, ret |-> v, calls |-> <<>>, log |-> <<>>]

\* the input is drawn at the start and kept as the argument of every call
\* made on it: a property id for the validator and the builders, a response
\* for the formatter
PropertyIdInput(p) == [NoCall("property_id") EXCEPT !.arg = p]
ResponseInput(response) == [NoCall("response") EXCEPT !.arg = response]

PropertyIdOps ==
    {"property_id", "validate_property_id", "build_standard_report_request",
     "build_realtime_report_request", "build_audience_report_request",
     "build_popular_pages_request"}
ResponseOps == {"response", "format_report_response"}

InitReportPath ==
    /\ settings \in {Settings_init(id, secret) : id \in ClientIdValues, secret \in ClientSecretValues}
    /\ credentials = None
    /\ credFile = Absent
    /\ flowFile = Absent
    /\ now = 0
    /\ ga4_client = GA4Client_init
    /\ starts = NoStarts
    /\ completing = NoComplete
    /\ lastCall \in {PropertyIdInput(p) : p \in PropertyIdInputs}
                    \cup {ResponseInput(response) : response \in ResponseInputs}

ValidatePropertyId ==
    /\ lastCall.op \in PropertyIdOps
    /\ \E r \in {validate_property_id(lastCall.arg)} :
          lastCall' = Call("validate_property_id", lastCall.arg,
                           r @@ [calls |-> <<>>, log |-> <<>>])
    /\ UNCHANGED <<settings, credentials, credFile, flowFile, now, ga4_client, starts, completing>>

BuildStandardReportRequest ==
    /\ lastCall.op \in PropertyIdOps
    /\ lastCall' = Call("build_standard_report_request", lastCall.arg,
                        Returns(build_standard_report_request(lastCall.arg, GoodStartDate,
                                    GoodEndDate, GoodMetrics, GoodDimensions, GoodLimit)))
    /\ UNCHANGED <<settings, credentials, credFile, flowFile, now, ga4_client, starts, completing>>

BuildRealtimeReportRequest ==
    /\ lastCall.op \in PropertyIdOps
    /\ lastCall' = Call("build_realtime_report_request", lastCall.arg,
                        Returns(build_realtime_report_request(lastCall.arg, GoodMetrics,
                                    GoodDimensions, GoodLimit)))
    /\ UNCHANGED <<settings, credentials, credFile, flowFile, now, ga4_client, starts, completing>>

BuildAudienceReportRequest ==
    /\ lastCall.op \in PropertyIdOps
    /\ lastCall' = Call("build_audience_report_request", lastCall.arg,
                        Returns(build_audience_report_request(lastCall.arg, GoodStartDate,
                                    GoodEndDate, GoodLimit)))
    /\ UNCHANGED <<settings, credentials, credFile, flowFile, now, ga4_client, starts, completing>>

BuildPopularPagesRequest ==
    /\ lastCall.op \in PropertyIdOps
    /\ lastCall' = Call("build_popular_pages_request", lastCall.arg,
                        Returns(build_popular_pages_request(lastCall.arg, GoodStartDate,
                                    GoodEndDate, GoodLimit)))
    /\ UNCHANGED <<settings, credentials, credFile, flowFile, now, ga4_client, starts, completing>>

FormatReportResponse ==
    /\ lastCall.op \in ResponseOps
    /\ lastCall' = Call("format_report_response", lastCall.arg,
                        Returns(format_report_response(lastCall.arg)))
    /\ UNCHANGED <<settings, credentials, credFile, flowFile, now, ga4_client, starts, completing>>

NextReportPath ==
    \/ ValidatePropertyId
    \/ BuildStandardReportRequest
    \/ BuildRealtimeReportRequest
    \/ BuildAudienceReportRequest
    \/ BuildPopularPagesRequest
    \/ FormatReportResponse

SpecReportPath == InitReportPath /\ [][NextReportPath]_vars

\* ------------------------------------------ the CredentialsManager on its own
GetCredentialsInfo ==
    \E r \in {get_credentials_info(credentials, now)} :
       /\ credentials' = r._credentials
       /\ lastCall' = Call("get_credentials_info", None, r)
       /\ UNCHANGED <<settings, credFile, flowFile, now, ga4_client, starts, completing>>

NextCredentials ==
    \/ SaveCredentials
    \/ LoadCredentials
    \/ ClearCredentials
    \/ GetCredentialsInfo
    \/ ExternalChangeCredentialsFile
    \/ Tick

SpecCredentials == Init /\ [][NextCredentials]_vars

\* --------------------------------------- complete_oauth_flow step by step
\* complete_oauth_flow in its three accesses to shared state: the read of the
\* flow state file with the exchange, the save of the credential, and the
\* removal of the flow state file.  The process can be stopped between two
\* steps; what it held in memory is then lost and the files stay.

\* oauth_manager.py 83-101: the flow state is read and the code exchanged; a
\* failure ends the call
CompleteExchange ==
    /\ completing.pc = "idle"
    /\ \E code \in Codes, x \in ExchangeOutcomes :
          \E r \in {complete_oauth_flow(credentials, credFile, flowFile, code, now, x, "ok", "ok")} :
             IF r.exc # NoExc
             THEN /\ completing' = completing
                  /\ lastCall' = Call("complete_oauth_flow", Str(code), r) @@ [flow |-> r.flow]
             ELSE /\ completing' = [pc |-> "exchanged", code |-> Str(code), c |-> r.ret,
                                    flow |-> r.flow]
                  /\ lastCall' = NoCall("fetch_token")
    /\ UNCHANGED <<settings, credentials, credFile, flowFile, now, ga4_client, starts>>

\* oauth_manager.py 103-104: the credential is saved; a failure ends the call
CompleteSave ==
    /\ completing.pc = "exchanged"
    /\ \E wio \in WriteOutcomes :
          \E saved \in {save_credentials(credentials, credFile, completing.c, wio)} :
             /\ credentials' = saved._credentials
             /\ credFile' = saved.credFile
             /\ IF saved.exc # NoExc
                THEN /\ completing' = NoComplete
                     /\ lastCall' =
                           Call("complete_oauth_flow", completing.code,
                                [exc |-> Exc("AuthenticationError",
                                             <<"Failed to complete OAuth flow: ">> \o saved.exc.msg),
                                 ret |-> None,
                                 calls |-> <<"read_flow_state_file", "fetch_token">> \o saved.calls,
                                 log |-> saved.log \o <<"Failed to complete OAuth flow: ">>])
                           @@ [flow |-> completing.flow]
                ELSE /\ completing' = [completing EXCEPT !.pc = "saved"]
                     /\ lastCall' = NoCall("save_credentials")
    /\ UNCHANGED <<settings, flowFile, now, ga4_client, starts>>

\* mutant of CompleteCleanup: the flow state file is removed as soon as the
\* code is exchanged
CompleteCleanup_before_save ==
    /\ completing.pc \in {"exchanged", "saved"}
    /\ \E rio \in RemoveOutcomes :
          \E cleaned \in {_cleanup_flow_state(flowFile, rio)} :
             /\ flowFile' = cleaned.flowFile
             /\ completing' = NoComplete
             /\ lastCall' =
                   Call("complete_oauth_flow", completing.code,
                        [exc |-> NoExc, ret |-> completing.c,
                         calls |-> <<"read_flow_state_file", "fetch_token",
                                     "write_credentials_file">> \o cleaned.calls,
                         log |-> cleaned.log])
                   @@ [flow |-> completing.flow]
    /\ UNCHANGED <<settings, credentials, credFile, now, ga4_client, starts>>

\* oauth_manager.py 106-110: the flow state file is removed and the call returns
CompleteCleanup ==
    /\ completing.pc = "saved"
    /\ \E rio \in RemoveOutcomes :
          \E cleaned \in {_cleanup_flow_state(flowFile, rio)} :
             /\ flowFile' = cleaned.flowFile
             /\ completing' = NoComplete
             /\ lastCall' =
                   Call("complete_oauth_flow", completing.code,
                        [exc |-> NoExc, ret |-> completing.c,
                         calls |-> <<"read_flow_state_file", "fetch_token",
                                     "write_credentials_file">> \o cleaned.calls,
                         log |-> cleaned.log])
                   @@ [flow |-> completing.flow]
    /\ UNCHANGED <<settings, credentials, credFile, now, ga4_client, starts>>

\* the process stops in the middle of the call: the files stay as they are
Interrupt ==
    /\ completing.pc # "idle"
    /\ completing' = NoComplete
    /\ credentials' = None
    /\ ga4_client' = GA4Client_init
    /\ lastCall' = [NoCall("interrupted") EXCEPT !.arg = completing.c]
    /\ UNCHANGED <<settings, credFile, flowFile, now, starts>>

NextCompleteSteps ==
    \/ StartOAuthFlow
    \/ CompleteExchange
    \/ CompleteSave
    \/ CompleteCleanup
    \/ Interrupt
    \/ Tick

SpecCompleteSteps == Init /\ [][NextCompleteSteps]_vars

\* ------------------------------------------------- concurrent start calls
\* start_oauth_flow reads the settings, builds the flow and the URL, and then
\* writes the flow state file: the write is its only access to shared state.
\* A caller is in progress between the generation of its state token and its
\* write; the write (open + json.dump) is taken as one step.
OthersInProgress(c) == \E d \in Callers \ {c} : starts.calls[d].pc = "generated"

\* oauth_manager.py lines 42-58 of one caller: configuration, flow, URL and
\* state token; a failure here ends the call before the file is touched
BeginStart(c) ==
    /\ starts.calls[c].pc # "generated"
    /\ \E state \in StateTokens, helperOk \in BOOLEAN :
          LET r == start_oauth_flow(settings, credentials, credFile, flowFile, state, helperOk, "ok")
          IN IF r.exc # NoExc
             THEN /\ lastCall' = Call("start_oauth_flow", None, r)
                  /\ starts' = [starts EXCEPT !.calls[c] = [NotStarted EXCEPT !.pc = "failed"]]
             ELSE /\ lastCall' = NoCall("begin_start")
                  /\ starts' = [starts EXCEPT !.calls[c] =
                                   [pc |-> "generated", state |-> Str(state), url |-> None,
                                    concurrent |-> OthersInProgress(c)]]
    /\ UNCHANGED <<settings, credentials, credFile, flowFile, now, ga4_client, completing>>

\* oauth_manager.py lines 60-64 of one caller: the write and the return
FinishStart(c) ==
    /\ starts.calls[c].pc = "generated"
    /\ \E io \in WriteOutcomes :
          LET r == start_oauth_flow(settings, credentials, credFile, flowFile,
                                    starts.calls[c].state.v, TRUE, io)
          IN /\ flowFile' = r.flowFile
             /\ lastCall' = Call("start_oauth_flow", None, r)
             /\ starts' = [calls |-> [starts.calls EXCEPT ![c] =
                                        [pc |-> IF r.exc = NoExc THEN "returned" ELSE "failed",
                                         state |-> starts.calls[c].state,
                                         url |-> r.ret,
                                         concurrent |-> starts.calls[c].concurrent
                                                        \/ OthersInProgress(c)]],
                           last |-> IF r.exc = NoExc THEN r.ret ELSE starts.last]
    /\ UNCHANGED <<settings, credentials, credFile, now, ga4_client, completing>>

NextConcurrentStart ==
    \/ \E c \in Callers : BeginStart(c)
    \/ \E c \in Callers : FinishStart(c)
    \/ CompleteOAuthFlow

SpecConcurrentStart == Init /\ [][NextConcurrentStart]_vars

\* ================================================================= claims
\* the document save_credentials writes for a credential
SavedForm(c) == Json(json_dump(Dict([k \in CredentialKeys |-> c[k]])))

Succeeded(op) == lastCall.op = op /\ lastCall.exc = NoExc
Logged(fragment) == \E i \in DOMAIN lastCall.log : lastCall.log[i] = fragment

\* C1 as stated: after start_oauth_flow succeeds the flow state file exists,
\* and after complete_oauth_flow returns successfully the credential is saved
\* in memory and in the credentials file and the flow state file is removed.
C1_AsStated ==
    /\ Succeeded("start_oauth_flow") => exists(flowFile)
    /\ Succeeded("complete_oauth_flow") =>
          /\ credentials = lastCall.ret
          /\ credFile = SavedForm(lastCall.ret)
          /\ ~exists(flowFile)

\* C1 amended: after start_oauth_flow succeeds the flow state file exists,
\* and after complete_oauth_flow returns successfully the credential is saved
\* in memory and in the credentials file and the flow state file is removed,
\* unless its removal failed: then the file is still there and the failure
\* was logged as a warning.
C1_FlowLifecycle ==
    /\ Succeeded("start_oauth_flow") => exists(flowFile)
    /\ Succeeded("complete_oauth_flow") =>
          /\ credentials = lastCall.ret
          /\ credFile = SavedForm(lastCall.ret)
          /\ exists(flowFile) <=> Logged("Failed to clean up flow state: ")

C1_Witness ==
    /\ Succeeded("complete_oauth_flow")
    /\ credentials = lastCall.ret
    /\ ~exists(flowFile)

\* C2: complete_oauth_flow called while no flow state file exists raises
\* AuthenticationError, makes no token exchange, and leaves the in-memory
\* credential and the credentials file unchanged.
C2_CompleteWithoutFlowState ==
    [][(lastCall'.op = "complete_oauth_flow" /\ flowFile = Absent) =>
          /\ IsInstance(lastCall'.exc, "AuthenticationError")
          /\ \A i \in DOMAIN lastCall'.calls : lastCall'.calls[i] # "fetch_token"
          /\ credentials' = credentials
          /\ credFile' = credFile
          /\ flowFile' = Absent]_vars

C2_Witness ==
    /\ lastCall.op = "complete_oauth_flow"
    /\ Mentions(lastCall.exc, "No OAuth flow state found. Please start OAuth flow first.")
    /\ credentials # None
    /\ exists(credFile)

\* C3: a successful save_credentials(c) followed by load_credentials() yields
\* a credential with the token, refresh_token, token_uri, client_id,
\* client_secret and scopes of c, and it becomes the in-memory credential.
C3_RoundTrip ==
    [][(Succeeded("save_credentials") /\ lastCall'.op = "load_credentials") =>
          /\ lastCall'.exc = NoExc
          /\ \A k \in CredentialKeys : lastCall'.ret[k] = lastCall.arg[k]
          /\ credentials' = lastCall'.ret]_vars

C3_Witness ==
    /\ Succeeded("load_credentials")
    /\ lastCall.ret.token = Str("tokC")
    /\ lastCall.ret.scopes = GA4_SCOPES
    /\ credentials = lastCall.ret

LacksRequiredKey(file) ==
    /\ file.kind = "json"
    /\ \/ file.doc.t # "object"
       \/ ~(CredentialKeys \subseteq DOMAIN file.doc.v)

\* C5: load_credentials() on a well-formed JSON credentials file that lacks
\* a required key raises CredentialsError "Invalid credentials file format"
\* and installs no in-memory credential.
C5_MissingKeysRejected ==
    [][(lastCall'.op = "load_credentials" /\ LacksRequiredKey(credFile)) =>
          /\ lastCall'.exc.type = "CredentialsError"
          /\ Mentions(lastCall'.exc, "Invalid credentials file format: ")
          /\ credentials' = credentials]_vars

\* C6: is_authenticated is true exactly when an in-memory credential exists
\* and is not expired, and is_expired is true whenever there is no in-memory
\* credential.
C6_AuthenticatedIff ==
    /\ is_authenticated(credentials, now) <=> (credentials # None /\ ~expired(credentials, now))
    /\ credentials = None => is_expired(credentials, now)

C6_Witness ==
    /\ credentials # None
    /\ expired(credentials, now)
    /\ ~is_authenticated(credentials, now)

\* C7: check_auth_status() returns (False, "Not authenticated...") without an
\* in-memory credential, (False, "Credentials expired...") with an expired
\* one, and (True, "Authenticated and ready...") otherwise.
C7_StatusMessages ==
    lastCall.op = "check_auth_status" =>
        lastCall.ret =
            IF credentials = None
            THEN Tuple(<<FALSE, "Not authenticated. Use start_oauth_flow or load_saved_credentials first.">>)
            ELSE IF expired(credentials, now)
            THEN Tuple(<<FALSE, "Credentials expired. Please re-authenticate using start_oauth_flow.">>)
            ELSE Tuple(<<TRUE, "Authenticated and ready to access Google Analytics 4 data.">>)

\* C8: clear_credentials() drops the in-memory credential and, when it
\* returns normally, has removed the credentials file; with nothing to clear
\* it raises nothing, touches no file and leaves no credential and no file;
\* a load_credentials() right after a successful clear fails with "No saved
\* credentials found".
C8_ClearIdempotent ==
    [][/\ lastCall'.op = "clear_credentials" =>
             /\ credentials' = None
             /\ lastCall'.exc = NoExc => credFile' = Absent
             /\ credFile = Absent => (lastCall'.exc = NoExc /\ lastCall'.calls = <<>>)
       /\ (Succeeded("clear_credentials") /\ lastCall'.op = "load_credentials") =>
             /\ Mentions(lastCall'.exc, "No saved credentials found. Please authenticate first.")
             /\ credentials' = None
             /\ credFile' = Absent]_vars

C8_Witness ==
    /\ Succeeded("clear_credentials")
    /\ lastCall.calls = <<"remove_credentials_file">>
    /\ credentials = None
    /\ credFile = Absent

\* C9: reset_authentication() attempts to remove the flow state file even
\* when clearing the credential fails, raises only AuthenticationError, and
\* when it returns normally there is no in-memory credential, no credentials
\* file and no flow state file.
C9_ResetBestEffort ==
    lastCall.op = "reset_authentication" =>
        /\ exists(flowFile) => \E i \in DOMAIN lastCall.calls : lastCall.calls[i] = "remove_flow_state_file"
        /\ lastCall.exc # NoExc => IsInstance(lastCall.exc, "AuthenticationError")
        /\ lastCall.exc = NoExc =>
              /\ credentials = None
              /\ credFile = Absent
              /\ flowFile = Absent

NeitherSet == ~Truthy(settings._client_id) /\ ~Truthy(settings._client_secret)

Raised(op) == lastCall.op = op /\ lastCall.exc # NoExc
Called(name) == \E i \in DOMAIN lastCall.calls : lastCall.calls[i] = name

\* C11: every failure of start_oauth_flow (missing configuration, failure of
\* the vendor flow helper, failure to write the flow state file) is raised as
\* an AuthenticationError whose message is the start prefix followed by the
\* underlying failure, and a start that fails for missing configuration
\* leaves the flow state file exactly as it was and never writes to it.
C11_StartFailures ==
    [][lastCall'.op = "start_oauth_flow" /\ lastCall'.exc # NoExc =>
          /\ lastCall'.exc.type = "AuthenticationError"
          /\ lastCall'.exc.msg[1] = "Failed to start OAuth flow: "
          /\ Len(lastCall'.exc.msg) >= 2
          /\ \/ Mentions(lastCall'.exc, " environment variable is required. ")
             \/ Mentions(lastCall'.exc, "ValueError")
             \/ Mentions(lastCall'.exc, "OSError")
          /\ ~has_required_credentials(settings) =>
                /\ flowFile' = flowFile
                /\ lastCall'.calls = <<>>
                /\ Mentions(lastCall'.exc, " environment variable is required. ")]_vars

\* a start failed for missing configuration while a flow state file of an
\* earlier run was present, and is still present
C11_Witness ==
    /\ Raised("start_oauth_flow")
    /\ ~has_required_credentials(settings)
    /\ exists(flowFile)

\* C12: when the client id and the client secret are both configured and
\* start_oauth_flow returns, the authorization URL is on the fixed Google
\* authorization endpoint and carries a state parameter, and the flow state
\* file holds that same state token together with the client configuration,
\* whose client id is the configured one.
C12_StartResult ==
    Succeeded("start_oauth_flow") =>
        /\ has_required_credentials(settings)
        /\ lastCall.ret.t = "url"
        /\ lastCall.ret.endpoint = Str("https://accounts.google.com/o/oauth2/auth")
        /\ lastCall.ret.state \in {Str(st) : st \in StateTokens}
        /\ flowFile.kind = "json"
        /\ LET flow_state == json_load(flowFile.doc)
           IN /\ flow_state.t = "dict"
              /\ DOMAIN flow_state.v = {"client_config", "state"}
              /\ flow_state.v["state"] = lastCall.ret.state
              /\ flow_state.v["client_config"].v["web"].v["client_id"] = settings._client_id
              /\ flow_state.v["client_config"].v["web"].v["client_id"] = lastCall.ret.client_id

\* a start returned the URL carrying the second state token while both
\* values were configured
C12_Witness ==
    /\ Succeeded("start_oauth_flow")
    /\ has_required_credentials(settings)
    /\ lastCall.ret.state = Str("st2")
    /\ exists(flowFile)


\* the state token held by a flow state file, None when the file has none
StoredState(file) ==
    IF file.kind = "json" /\ json_load(file.doc).t = "dict"
                          /\ "state" \in DOMAIN json_load(file.doc).v
    THEN json_load(file.doc).v["state"]
    ELSE None

IssuedStates == {Str(st) : st \in StateTokens}

\* C13: complete_oauth_flow reconstructs the flow with exactly the state
\* token stored in the flow state file, and a completion whose state token is
\* forged (not one that start_oauth_flow issued) is rejected by the exchange
\* step: it raises and no credential is saved, in memory or in the file.
C13_ForgedStateRejected ==
    [][lastCall'.op = "complete_oauth_flow" =>
          /\ lastCall'.flow # None => lastCall'.flow.state = StoredState(flowFile)
          /\ (StoredState(flowFile) # None /\ StoredState(flowFile) \notin IssuedStates) =>
                /\ lastCall'.exc # NoExc
                /\ credentials' = credentials
                /\ credFile' = credFile]_vars


\* C14: there is one flow state file and it holds one flow state. When
\* start_oauth_flow is called several times before a complete, one after the
\* other or overlapping, every successful write replaces what was there
\* without any warning: after a start returns the file holds exactly the
\* state token of that start, and a following complete_oauth_flow rebuilds
\* the flow with the state token of the last start whose write succeeded.
C14_LastWriterWins ==
    /\ Succeeded("start_oauth_flow") =>
          /\ StoredState(flowFile) = lastCall.ret.state
          /\ DOMAIN json_load(flowFile.doc).v = {"client_config", "state"}
          /\ lastCall.log = <<>>
          /\ starts.last = lastCall.ret
    /\ (lastCall.op = "complete_oauth_flow" /\ lastCall.flow # None) =>
          /\ starts.last # None
          /\ lastCall.flow.state = starts.last.state

\* a start that overlapped with another one returned its URL, its state
\* token was replaced in the file by the other start, and a complete has
\* used the other token
C14_Witness ==
    /\ lastCall.op = "complete_oauth_flow"
    /\ lastCall.flow # None
    /\ \E c \in Callers :
          /\ starts.calls[c].pc = "returned"
          /\ starts.calls[c].concurrent
          /\ starts.calls[c].url.state # lastCall.flow.state

\* C15: the removal of the flow state file at the end of complete_oauth_flow
\* is best-effort: when the removal was attempted and the file is still
\* there, complete_oauth_flow has returned the exchanged credential without
\* raising, and that credential is the one held in memory and in the
\* credentials file.
C15_CleanupFailureTolerated ==
    (lastCall.op = "complete_oauth_flow" /\ Called("remove_flow_state_file") /\ exists(flowFile)) =>
        /\ lastCall.exc = NoExc
        /\ lastCall.ret.t = "Credentials"
        /\ lastCall.ret.token \in {x.token : x \in {y \in ExchangeOutcomes : y.ok}}
        /\ credentials = lastCall.ret
        /\ credFile = SavedForm(lastCall.ret)

\* the removal failed after an exchange that returned no refresh token
C15_Witness ==
    /\ lastCall.op = "complete_oauth_flow"
    /\ Called("remove_flow_state_file")
    /\ exists(flowFile)
    /\ lastCall.ret.refresh_token = None
    /\ credentials # None


DataTools ==
    {"tool_list_properties", "tool_get_ga4_report", "tool_get_realtime_data",
     "tool_get_ga4_audience_data", "tool_get_popular_pages"}

Tools ==
    DataTools \cup {"tool_start_oauth_flow", "tool_complete_oauth_flow",
                    "tool_load_saved_credentials", "tool_check_auth_status",
                    "tool_debug_env_vars"}

\* C16: a data tool of the server (list_properties, get_ga4_report,
\* get_realtime_data, get_ga4_audience_data, get_popular_pages) invoked while
\* the GA4 client has no credential, an expired credential, or a vendor
\* client that was not initialised returns the string that starts with
\* "Error: Not authenticated", raises nothing and sends nothing to the vendor.
C16_DataToolsGated ==
    [][(/\ lastCall'.op \in DataTools
        /\ \/ ga4_client._credentials = None
           \/ expired(ga4_client._credentials, now)
           \/ ga4_client._analytics_client = None
           \/ ga4_client._admin_client = None) =>
          /\ lastCall'.exc = NoExc
          /\ lastCall'.ret.t = "fstr"
          /\ lastCall'.ret.parts[1] = "Error: Not authenticated"
          /\ lastCall'.sent = <<>>
          /\ lastCall'.calls = <<>>
          /\ ga4_client' = ga4_client]_vars

\* a data tool was refused while the GA4 client held a credential that had
\* not expired: its vendor clients were never built
C16_Witness ==
    /\ lastCall.op \in DataTools
    /\ lastCall.ret = NotAuthenticated
    /\ ga4_client._credentials # None
    /\ ~expired(ga4_client._credentials, now)
    /\ ga4_client._analytics_client = None

ReportMethods ==
    {"get_standard_report", "get_realtime_data", "get_audience_data", "get_popular_pages"}

\* some parameter of the call is one that DataValidator rejects
InvalidParameters(a) ==
    \/ validate_property_id(a.property_id).exc # NoExc
    \/ validate_limit(a.limit).exc # NoExc
    \/ /\ "start_date" \in DOMAIN a
       /\ validate_date_range(a.start_date, a.end_date).exc # NoExc
    \/ /\ "metrics" \in DOMAIN a
       /\ \/ validate_metrics(a.metrics).exc # NoExc
          \/ validate_dimensions(a.dimensions).exc # NoExc

\* C17: for every report kind (standard, realtime, audience, popular pages)
\* the parameters are validated before any external call: a call with an
\* invalid property id, date range, metric or dimension list or row limit
\* sends no request to the vendor.
C17_ValidatedBeforeVendorCall ==
    (lastCall.op \in ReportMethods /\ InvalidParameters(lastCall.arg)) => lastCall.sent = <<>>

\* the property listing of some account failed during the last list_properties
ListingFailed ==
    /\ lastCall.op = "list_properties"
    /\ lastCall.ret # None
    /\ \E i \in DOMAIN lastCall.ret.v["accounts"].v :
          "properties_error" \in DOMAIN lastCall.ret.v["accounts"].v[i].v

\* C18: a failure of a vendor request made by an authenticated GA4Client
\* method (the four report methods and list_properties) is raised as
\* GA4APIError whose message is the context string followed by the vendor's
\* message and whose api_error is the vendor exception; the vendor exception
\* itself never leaves the method.
C18_VendorFailuresWrapped ==
    lastCall.op \in ReportMethods \cup {"list_properties"} =>
        /\ lastCall.exc.type # VendorError.type
        /\ (lastCall.exc # NoExc /\ lastCall.sent # <<>>) =>
              /\ lastCall.exc.type = "GA4APIError"
              /\ Len(lastCall.exc.msg) = 1 + Len(VendorError.msg)
              /\ lastCall.exc.api_error = VendorError
        /\ ListingFailed =>
              /\ lastCall.exc.type = "GA4APIError"
              /\ lastCall.exc.api_error = VendorError

\* C19: every tool of the server returns a str and lets no exception cross
\* the tool boundary; when the core raised (configuration, authentication,
\* credentials, validation or vendor failure) the str is the tool's error
\* prefix followed by the message of that exception.
C19_ToolsReturnStrings ==
    lastCall.op \in Tools =>
        /\ lastCall.exc = NoExc
        /\ IsStr(lastCall.ret)
        /\ lastCall.core # NoExc =>
              /\ lastCall.ret.t = "fstr"
              /\ Len(lastCall.ret.parts) = 1 + Len(lastCall.core.msg)
              /\ SubSeq(lastCall.ret.parts, 2, Len(lastCall.ret.parts)) = lastCall.core.msg

\* the vendor clients could not be built after complete_oauth_flow had
\* stored the credential, and the tool returned the error as a str
C19_Witness ==
    /\ lastCall.op = "tool_complete_oauth_flow"
    /\ lastCall.core.type = "GA4APIError"
    /\ lastCall.ret.t = "fstr"
    /\ credentials # None

\* C20: nothing is retried: one call of a GA4Client method sends each
\* request (the report request, the account listing, the property listing of
\* each account) at most once, and a failed request ends the call with an
\* exception, no further request being sent.
C20_NoRetryFailFast ==
    lastCall.op \in ReportMethods \cup {"list_properties"} =>
        /\ \A i, j \in DOMAIN lastCall.sent :
              lastCall.sent[i] = lastCall.sent[j] => i = j
        /\ lastCall.op \in ReportMethods => Len(lastCall.sent) <= 1
        /\ ListingFailed => lastCall.exc # NoExc


\* a non-empty string of digits (the characters str.isdigit accepts)
AllDigits(p) == p # <<>> /\ \A i \in DOMAIN p : p[i] \in DigitChars

\* "properties/" followed by one or more digits
Canonical(s) ==
    /\ startswith(s, PropertiesPrefix)
    /\ AllDigits(SubSeq(s, Len(PropertiesPrefix) + 1, Len(s)))

\* C21: for every non-empty string p of digits, validate_property_id(p) and
\* validate_property_id("properties/" + p) both succeed and both return
\* "properties/" + p.
C21_PrefixOptional ==
    lastCall.op = "validate_property_id" =>
        /\ AllDigits(lastCall.arg) =>
              /\ lastCall.exc = NoExc
              /\ lastCall.ret = PropertiesPrefix \o lastCall.arg
              /\ validate_property_id(PropertiesPrefix \o lastCall.arg) =
                    [exc |-> NoExc, ret |-> PropertiesPrefix \o lastCall.arg]
        /\ Canonical(lastCall.arg) =>
              /\ lastCall.exc = NoExc
              /\ lastCall.ret = lastCall.arg

\* the prefixed form of a two-digit id was validated and came back unchanged
C21_Witness ==
    /\ lastCall.op = "validate_property_id"
    /\ lastCall.arg = PropertiesPrefix \o <<"1", "2">>
    /\ lastCall.exc = NoExc
    /\ lastCall.ret = lastCall.arg

\* the text "properties/" occurs in s somewhere else than at its start
PrefixElsewhere(s) ==
    \E k \in 2..Len(s) : startswith(SubSeq(s, k, Len(s)), PropertiesPrefix)

\* C22: for every string, validate_property_id either raises ValidationError
\* or returns "properties/" followed by one or more digits; a string that
\* holds "properties/" elsewhere than as its single leading prefix, and a
\* string without digits, is rejected.
C22_CanonicalOrRejected ==
    lastCall.op = "validate_property_id" =>
        /\ \/ lastCall.exc.type = "ValidationError"
           \/ lastCall.exc = NoExc /\ Canonical(lastCall.ret)
        /\ PrefixElsewhere(lastCall.arg) => lastCall.exc.type = "ValidationError"
        /\ (\A i \in DOMAIN lastCall.arg : lastCall.arg[i] \notin DigitChars) =>
              lastCall.exc.type = "ValidationError"

Builders ==
    {"build_standard_report_request", "build_realtime_report_request",
     "build_audience_report_request", "build_popular_pages_request"}

\* C23: each of the four builders embeds a property field of the form
\* "properties/<digits>" for every property id it accepts, with or without
\* the prefix in the id it was given.
C23_BuildersEmbedCanonical ==
    (lastCall.op \in Builders /\ lastCall.exc = NoExc) => Canonical(lastCall.ret.property)

\* C24: format_report_response keeps the rows of the response: one entry
\* under "rows" per row, in the same order, whose "dimensions" and "metrics"
\* lists hold the row's values unchanged, in order and in the same number.
C24_RowsProjected ==
    lastCall.op = "format_report_response" =>
        LET rows == lastCall.arg.rows
            out == lastCall.ret.v["rows"].v
        IN /\ lastCall.exc = NoExc
           /\ Len(out) = Len(rows)
           /\ \A i \in DOMAIN rows :
                 /\ DOMAIN out[i].v = {"dimensions", "metrics"}
                 /\ Len(out[i].v["dimensions"].v) = Len(rows[i].dimension_values)
                 /\ Len(out[i].v["metrics"].v) = Len(rows[i].metric_values)
                 /\ \A j \in DOMAIN rows[i].dimension_values :
                       out[i].v["dimensions"].v[j] = Str(rows[i].dimension_values[j])
                 /\ \A j \in DOMAIN rows[i].metric_values :
                       out[i].v["metrics"].v[j] = Str(rows[i].metric_values[j])

\* two different rows were formatted: a row of two dimensions and a row of none
C24_Witness ==
    /\ lastCall.op = "format_report_response"
    /\ Len(lastCall.arg.rows) = 2
    /\ lastCall.arg.rows[1].dimension_values = <<"b", "a">>
    /\ lastCall.arg.rows[2].dimension_values = <<>>
    /\ Len(lastCall.ret.v["rows"].v) = 2
    /\ lastCall.ret.v["rows"].v[1].v["dimensions"].v = <<Str("b"), Str("a")>>


InfoKeys == {"authenticated", "expired", "scopes", "client_id", "has_refresh_token"}

\* C25: get_credentials_info() never raises and changes no state, and in
\* every state returns a dict with the five keys authenticated, expired,
\* scopes, client_id and has_refresh_token; without an in-memory credential
\* it reports authenticated False, expired True, scopes [] and client_id None.
C25_InfoProjection ==
    [][lastCall'.op = "get_credentials_info" =>
          /\ lastCall'.exc = NoExc
          /\ credentials' = credentials
          /\ credFile' = credFile
          /\ flowFile' = flowFile
          /\ DOMAIN lastCall'.ret.v = InfoKeys
          /\ credentials = None =>
                /\ lastCall'.ret.v["authenticated"] = PyBool(FALSE)
                /\ lastCall'.ret.v["expired"] = PyBool(TRUE)
                /\ lastCall'.ret.v["scopes"] = PyList(<<>>)
                /\ lastCall'.ret.v["client_id"] = None]_vars


\* C30: clear_credentials() always leaves no in-memory credential, also when
\* the removal of the credentials file fails and CredentialsError is raised;
\* the file is then still there as it was, so the manager is not
\* authenticated and load_credentials() brings back what the file holds.
C30_ClearDropsCredential ==
    [][lastCall'.op = "clear_credentials" =>
          /\ credentials' = None
          /\ ~is_authenticated(credentials', now')
          /\ lastCall'.exc # NoExc =>
                /\ lastCall'.exc.type = "CredentialsError"
                /\ exists(credFile')
                /\ credFile' = credFile
                /\ load_credentials(credentials, credFile).exc = NoExc =>
                      /\ load_credentials(credentials', credFile').exc = NoExc
                      /\ load_credentials(credentials', credFile')._credentials
                            = load_credentials(credentials, credFile)._credentials
                      /\ load_credentials(credentials', credFile')._credentials # None]_vars

\* the removal failed: no credential in memory, and the file still holds one
\* that load_credentials() accepts
C30_Witness ==
    /\ lastCall.op = "clear_credentials"
    /\ lastCall.exc.type = "CredentialsError"
    /\ credentials = None
    /\ load_credentials(credentials, credFile).exc = NoExc
    /\ load_credentials(credentials, credFile)._credentials.token # None


\* C26: within complete_oauth_flow the credential is saved before the flow
\* state file is removed: a step that removes the flow state file is taken
\* only when the credentials file already holds the credential just
\* exchanged, and a call stopped part-way leaves the flow state file or that
\* credential on disk.
C26_SavedBeforeRemoved ==
    [][/\ (exists(flowFile) /\ ~exists(flowFile')) =>
             /\ completing.pc = "saved"
             /\ credFile = SavedForm(completing.c)
             /\ credFile' = credFile
       /\ lastCall'.op = "interrupted" =>
             \/ exists(flowFile')
             \/ credFile' = SavedForm(lastCall'.arg)
       /\ (lastCall'.op = "complete_oauth_flow" /\ lastCall'.exc = NoExc) =>
             credFile' = SavedForm(lastCall'.ret)]_vars

\* the call was stopped between the save and the removal: both files are there
C26_Witness ==
    /\ lastCall.op = "interrupted"
    /\ credFile = SavedForm(lastCall.arg)
    /\ exists(flowFile)
    /\ credentials = None

\* the flow state file cannot be used: not JSON, not an object, a key or a
\* field of the client configuration missing
MalformedFlowState(file) ==
    /\ exists(file)
    /\ \/ file.kind = "text"
       \/ json_load(file.doc).t # "dict"
       \/ ~({"client_config", "state"} \subseteq DOMAIN json_load(file.doc).v)
       \/ ~from_client_config_ok(json_load(file.doc).v["client_config"])

ExchangeFailed(call) ==
    /\ call.exc # NoExc
    /\ call.calls = <<"read_flow_state_file", "fetch_token">>

\* C27: when complete_oauth_flow fails at the token exchange, or because the
\* flow state file is malformed, it raises AuthenticationError and leaves the
\* flow state file, the in-memory credential and the credentials file as they
\* were; after a failed exchange a second complete with a code that is
\* accepted succeeds without a new start.
C27_FailedCompleteKeepsState ==
    [][(/\ lastCall'.op = "complete_oauth_flow"
        /\ MalformedFlowState(flowFile) \/ ExchangeFailed(lastCall')) =>
          /\ lastCall'.exc.type = "AuthenticationError"
          /\ flowFile' = flowFile
          /\ credentials' = credentials
          /\ credFile' = credFile
          /\ ExchangeFailed(lastCall') =>
                \A code \in Codes, x \in ExchangeOutcomes :
                    x.ok => complete_oauth_flow(credentials', credFile', flowFile', code, now',
                                                x, "ok", "ok").exc = NoExc]_vars

\* the exchange failed and the flow state file is still there
C27_Witness ==
    /\ lastCall.op = "complete_oauth_flow"
    /\ ExchangeFailed(lastCall)
    /\ exists(flowFile)
    /\ ~MalformedFlowState(flowFile)


\* the answer of check_auth_status when the CredentialsManager holds a
\* credential that has not expired
AuthenticatedAndReady == Str("Authenticated and ready to access Google Analytics 4 data.")

\* C28: after any sequence of start, complete and load tool calls, also ones
\* that fail part-way, the check_auth_status tool answers "Authenticated and
\* ready" only if the GA4 client is authenticated, so that the data tools
\* pass their gate, and holds the credential the CredentialsManager holds.
C28_ReadyOnlyIfClientAuthenticated ==
    (/\ lastCall.op = "tool_check_auth_status"
     /\ lastCall.ret = AuthenticatedAndReady) =>
        /\ GA4Client_is_authenticated(ga4_client, now)
        /\ ga4_client._credentials = credentials


\* the last call was a complete_oauth_flow that returned a credential
CompleteSucceeded(call) == call.op = "complete_oauth_flow" /\ call.exc = NoExc

\* the flow state file is missing or is not JSON: what a successful removal,
\* or a failed start after it, leaves
NoFlowState(file) == ~exists(file) \/ file.kind = "text"

====
